---- MODULE Spec2Model ----
(***************************************************************************)
(* ObjectKV: the snapshot reader (snapshot_reader.Reader) over immutable   *)
(* segments, with the per-segment reader and row iterator (package sst)    *)
(* it is built on.                                                         *)
(*                                                                         *)
(* Byte strings are compared with bytes.Compare only, so a key is modelled *)
(* as a natural number under the same total order: 0 is the empty (or nil) *)
(* byte string, 255 the one-byte string 0xFF.  A segment ID is a string    *)
(* compared with <, modelled the same way: 0 is the empty ID "".           *)
(* A value keeps the difference between a nil slice and an empty one.      *)
(***************************************************************************)
EXTENDS Integers, Sequences, FiniteSets, TLC

VARIABLES
    segmentIDTree,      \* Reader.segmentIDTree: records ordered by ID
    blockRangeTree,     \* Reader.blockRangeTree: records ordered by blockRangeLessFunc
    last,               \* the call that has returned and its result; NoCall when idle
    indexMu,            \* Reader.indexMu: [writer, readers]
    update,             \* the goroutine inside UpdateSegments, IdleUpdate when none
    read,               \* the goroutine inside GetRow or GetRange, IdleRead when none
    established,        \* the indexes as the last completed UpdateSegments left them
    rowIter,            \* a sst.RowIter a caller holds, NoIter when none
    since,              \* how rowIter was positioned last (constructed or sought)
                        \* and what Next returned since then
    writer,             \* a sst.SegmentWriter and the bytes its sink received
    written             \* what Close returned and what a reader made of it

vars == <<segmentIDTree, blockRangeTree, last, indexMu, update, read, established,
          rowIter, since, writer, written>>

\* what the Reader's calls leave alone
iterVars == <<rowIter, since>>

\* what the calls on a written segment leave alone
writerVars == <<writer, written>>

\* what the calls that run to completion leave alone
concVars == <<indexMu, update, read, established>>

\* no SegmentWriter constructed yet, nothing closed or read back
NoWriter == [closed |-> FALSE, made |-> FALSE]
NoSegment == [state |-> "none"]

\* what the calls on a segment leave alone
readerVars == <<segmentIDTree, blockRangeTree, concVars>>

----------------------------------------------------------------------------
(* Program constants                                                       *)

UnboundStart == 0
UnboundEnd == 255
DirectionAscending == 0
DirectionDescending == 1
MaxUint16 == 65535  \* math.MaxUint16, the greatest key length WriteRow accepts

(* Bounds of the model                                                     *)

MaxKey == 5         \* keys probed by reads are 0..MaxKey and UnboundEnd
MaxLimit == 3       \* limits passed to GetRange are 0..MaxLimit
MaxBatch == 1       \* add and drop lists of UpdateSegments hold at most MaxBatch records
MaxNexts == 6       \* Next is called at most MaxNexts times on one position of a RowIter
MaxRows == 3        \* a SegmentWriter is given at most MaxRows rows
MaxCloses == 2      \* Close succeeds at most MaxCloses times on one SegmentWriter
SmallThreshold == 12    \* the larger DataBlockThresholdBytes option tried
SmallBlockSize == 16    \* the DataBlockSize option tried

----------------------------------------------------------------------------
(* Go values                                                               *)

NilBytes == [nil |-> TRUE, b |-> <<>>]
Bytes(s) == [nil |-> FALSE, b |-> s]
EmptyBytes == Bytes(<<>>)

\* bytes.Equal([]byte{}, v): a nil slice equals an empty one
IsEmptyBytes(v) == v.b = <<>>

KVPair(k, v) == [Key |-> k, Value |-> v]
ZeroKVPair == KVPair(0, NilBytes)

Reverse(s) == [i \in 1..Len(s) |-> s[Len(s) + 1 - i]]

Min2(a, b) == IF a < b THEN a ELSE b

----------------------------------------------------------------------------
(* Segment files.  A file is the sequence of data blocks the writer        *)
(* flushed, each block the rows given to WriteRow in order.  Store maps a  *)
(* segment ID to its file: it is what the reader factory opens.            *)

V(id, k) == Bytes(<<id, k>>)        \* the value segment id wrote for key k

Store ==
    [id \in 1..7 |->
        CASE id = 1 -> << <<KVPair(1, V(1, 1))>>,
                          <<KVPair(2, V(1, 2)), KVPair(3, V(1, 3))>>,
                          <<KVPair(4, V(1, 4))>> >>
          [] id = 2 -> << <<KVPair(2, V(2, 2))>> >>
          [] id = 3 -> << <<KVPair(2, V(3, 2)), KVPair(3, V(3, 3))>> >>
          [] id = 4 -> << <<KVPair(1, V(4, 1)), KVPair(3, EmptyBytes)>>,
                          <<KVPair(4, NilBytes)>> >>
          [] id = 5 -> << <<KVPair(5, V(5, 5))>> >>
          \* a key that sorts after UnboundEnd (bytes 0xFF 0x00)
          [] id = 6 -> << <<KVPair(1, V(6, 1))>>,
                          <<KVPair(UnboundEnd + 1, V(6, 6))>> >>
          \* the file whose second block cannot be read
          [] id = 7 -> << <<KVPair(1, V(7, 1))>>,
                          <<KVPair(2, V(7, 2)), KVPair(3, V(7, 3))>>,
                          <<KVPair(4, V(7, 4))>> >>]

\* segments 1 and 5 are compacted (L1) and disjoint, the others are L0
SegmentLevel == [id \in 1..7 |-> IF id \in {1, 5} THEN 1 ELSE 0]

\* the reader factory returns an error for a record whose file the store
\* does not hold
FactoryFails(id) == id \notin DOMAIN Store

\* ReadBlockWithStat returns an error: the source fails to seek to, read or
\* decompress the second block of segment 7
ReadFails(id, stat) == id = 7 /\ stat.Block = 2

\* SegmentMetadata.BlockIndex: one BlockStat per block, ordered by FirstKey
BlockIndex(id) ==
    [i \in 1..Len(Store[id]) |-> [FirstKey |-> Store[id][i][1].Key, Block |-> i]]

FileFirstKey(id) == Store[id][1][1].Key
FileLastKey(id) ==
    LET blk == Store[id][Len(Store[id])] IN blk[Len(blk)].Key

FileRows(id) ==
    LET RECURSIVE cat(_)
        cat(i) == IF i > Len(Store[id]) THEN <<>> ELSE Store[id][i] \o cat(i + 1)
    IN cat(1)

\* ReadBlockWithStat: the rows of one block, decoded.  A value is read with
\* make([]byte, valueLen), so a zero-length value comes back empty, not nil.
ReadBlockWithStat(id, stat) ==
    [i \in 1..Len(Store[id][stat.Block]) |->
        KVPair(Store[id][stat.Block][i].Key, Bytes(Store[id][stat.Block][i].Value.b))]

\* BlockIndex.DescendLessOrEqual(pivot): the stats it visits, in visiting order
StatsDescendLE(id, k) ==
    LET idx == BlockIndex(id)
        n == Cardinality({i \in 1..Len(idx) : idx[i].FirstKey <= k})
    IN [j \in 1..n |-> idx[n + 1 - j]]

\* BlockIndex.AscendGreaterOrEqual(pivot): the stats it visits, in visiting order
StatsAscendGE(id, k) ==
    LET idx == BlockIndex(id)
        m == Cardinality({i \in 1..Len(idx) : idx[i].FirstKey < k})
    IN [j \in 1..(Len(idx) - m) |-> idx[m + j]]

----------------------------------------------------------------------------
(* sst.RowIter: a cursor over one segment.  statLastKey is 0 while nil,    *)
(* blockRows is <<>> while nil.  closed is the closed flag of the segment  *)
(* reader the iterator holds (r.s.closed).                                 *)

NewRowIter(id, direction) ==
    [s |-> id, direction |-> direction, statLastKey |-> 0,
     blockRows |-> <<>>, blockRowIdx |-> 0, closed |-> FALSE]

\* The callback of Next's index walk: skip the stat whose first key is
\* statLastKey, take the first other one.  <<>> when the walk finds none.
NextStat(walk, statLastKey) ==
    LET other == {i \in 1..Len(walk) : walk[i].FirstKey # statLastKey}
    IN IF other = {} THEN <<>>
       ELSE <<walk[CHOOSE i \in other : \A j \in other : i <= j]>>

\* a Next that looks at the closed flag only once the buffered rows are used up
ReaderClosed_AfterBuffer(r) ==
    r.closed /\ ~(r.blockRows # <<>> /\ r.blockRowIdx < Len(r.blockRows) /\ r.blockRowIdx >= 0)

\* the test r.s.closed that Next starts with
ReaderClosed(r) == r.closed

\* a Next that forgets its position when the index walk finds no block
NoMoreBlocks_Rewound(r, seeded) ==
    [iter |-> [r EXCEPT !.statLastKey = 0, !.blockRows = <<>>, !.blockRowIdx = 0],
     pair |-> ZeroKVPair, err |-> "EOF", blocks |-> {}]

\* Next when its index walk finds no further block: io.EOF, the iterator
\* left where it is (statLastKey was seeded before the walk)
NoMoreBlocks(r, seeded) ==
    [iter |-> [r EXCEPT !.statLastKey = seeded],
     pair |-> ZeroKVPair, err |-> "EOF", blocks |-> {}]

\* RowIter.Next: [iter, pair, err, blocks], err one of "nil", "EOF", "Closed",
\* "Read"; blocks are the data blocks it asked ReadBlockWithStat for
RowIter_Next(r) ==
    IF ReaderClosed(r)
    THEN [iter |-> r, pair |-> ZeroKVPair, err |-> "Closed", blocks |-> {}]
    ELSE IF r.blockRows # <<>> /\ r.blockRowIdx < Len(r.blockRows) /\ r.blockRowIdx >= 0
    THEN [iter |-> [r EXCEPT !.blockRowIdx = r.blockRowIdx + 1],
          pair |-> r.blockRows[r.blockRowIdx + 1], err |-> "nil", blocks |-> {}]
    ELSE
      LET seeded == IF r.direction = DirectionDescending
                       /\ r.statLastKey = 0 /\ r.blockRowIdx > -1
                    THEN FileLastKey(r.s) ELSE r.statLastKey
          walk == IF r.direction = DirectionDescending
                  THEN StatsDescendLE(r.s, seeded)
                  ELSE StatsAscendGE(r.s, seeded)
          stat == NextStat(walk, seeded)
      IN IF stat = <<>> THEN NoMoreBlocks(r, seeded)
         ELSE IF ReadFails(r.s, stat[1])
         THEN [iter |-> [r EXCEPT !.statLastKey = stat[1].FirstKey],
               pair |-> ZeroKVPair, err |-> "Read", blocks |-> {stat[1].Block}]
         ELSE
           LET rows == ReadBlockWithStat(r.s, stat[1])
               oriented == IF r.direction = DirectionDescending
                           THEN Reverse(rows) ELSE rows
           IN [iter |-> [r EXCEPT !.statLastKey = stat[1].FirstKey,
                                  !.blockRows = oriented,
                                  !.blockRowIdx = 1],
               pair |-> oriented[1], err |-> "nil", blocks |-> {stat[1].Block}]

\* The stat Seek starts from: the walk DescendLessOrEqual(key) keeps the
\* visited stat and goes on while key <= stat.FirstKey.  <<>> when none.
RECURSIVE SeekWalk(_, _, _, _)
SeekWalk(walk, i, key, stat) ==
    IF i > Len(walk) THEN stat
    ELSE IF key <= walk[i].FirstKey THEN SeekWalk(walk, i + 1, key, <<walk[i]>>)
    ELSE <<walk[i]>>

\* One turn of the loop of Seek, n being what Next returned: io.EOF makes
\* Seek return nil at once, a row at or past key in the iterator's direction
\* ends the loop (found).
RECURSIVE SeekLoop(_, _)
SeekLoopStep(r, key, n) ==
    IF n.err # "nil" THEN [iter |-> n.iter, found |-> FALSE,
                           err |-> IF n.err = "EOF" THEN "nil" ELSE n.err]
    ELSE IF (r.direction = DirectionDescending /\ n.pair.Key <= key)
            \/ (r.direction = DirectionAscending /\ n.pair.Key >= key)
    THEN [iter |-> n.iter, found |-> TRUE, err |-> "nil"]
    ELSE SeekLoop(n.iter, key)

\* The loop of Seek: Next until the row reaches key or Next fails
SeekLoop(r, key) == SeekLoopStep(r, key, RowIter_Next(r))

\* The stat the index lookup of Seek ends with; <<>> while stat is nil
SeekStat(id, key) ==
    IF key = UnboundStart THEN <<BlockIndex(id)[1]>>
    ELSE IF key = UnboundEnd THEN <<BlockIndex(id)[Len(BlockIndex(id))]>>
    ELSE SeekWalk(StatsDescendLE(id, key), 1, key, <<>>)

\* missingStat: the block Seek jumps to and the row index it sets, lastRows
\* being the rows of the last block.  In the ascending case rows is still nil
\* when len(rows) - 1 is taken.
SeekEnds(direction, key, firstBlock, lastBlock, lastRows) ==
    IF direction = DirectionAscending
    THEN (IF key < firstBlock.FirstKey
          THEN [stat |-> firstBlock, blockRowIdx |-> 0]
          ELSE [stat |-> lastBlock, blockRowIdx |-> 0 - 1])
    ELSE (IF key > lastRows[Len(lastRows)].Key
          THEN [stat |-> lastBlock, blockRowIdx |-> 0]
          ELSE [stat |-> firstBlock, blockRowIdx |-> Len(lastRows) - 1])

\* The block Seek loads and the row index before its loop: [stat, blockRowIdx]
SeekPosition(r, key, found) ==
    IF found # <<>> THEN [stat |-> found[1], blockRowIdx |-> 0]
    ELSE SeekEnds(r.direction, key, BlockIndex(r.s)[1],
                  BlockIndex(r.s)[Len(BlockIndex(r.s))],
                  ReadBlockWithStat(r.s, BlockIndex(r.s)[Len(BlockIndex(r.s))]))

\* The iterator once the block at pos is loaded, rows being its rows
SeekLoad(r, pos, rows) ==
    [r EXCEPT !.statLastKey = pos.stat.FirstKey,
              !.blockRows = IF r.direction = DirectionDescending
                            THEN Reverse(rows) ELSE rows,
              !.blockRowIdx = pos.blockRowIdx]

\* The end of Seek after its loop l: the row index steps back when the loop
\* found a row
SeekLoopEnd(l) ==
    IF ~l.found THEN [iter |-> l.iter, err |-> l.err]
    ELSE [iter |-> [l.iter EXCEPT !.blockRowIdx = l.iter.blockRowIdx - 1],
          err |-> "nil"]

\* Seek from the loaded block: to the end of the block for a sentinel that
\* faces the direction, else by the loop
SeekFrom(loaded, key, rows) ==
    IF (loaded.direction = DirectionAscending /\ key = UnboundEnd)
       \/ (loaded.direction = DirectionDescending /\ key = UnboundStart)
    THEN [iter |-> [loaded EXCEPT !.blockRowIdx =
                       IF key = UnboundStart /\ loaded.direction = DirectionDescending
                       THEN 0 - 1 ELSE Len(rows)],
          err |-> "nil"]
    ELSE SeekLoopEnd(SeekLoop(loaded, key))

SeekBlock(r, key, pos, rows) == SeekFrom(SeekLoad(r, pos, rows), key, rows)

\* Seek loading the block at pos: a failure of ReadBlockWithStat is dropped
\* and the rows stay nil
SeekAt(r, key, pos) ==
    SeekBlock(r, key, pos,
              IF ReadFails(r.s, pos.stat) THEN <<>> ELSE ReadBlockWithStat(r.s, pos.stat))

\* Seek with the stat its index lookup found: descending without a stat it
\* reads the last block first, and returns the error of that read
SeekWith(r, key, found) ==
    IF found = <<>> /\ r.direction = DirectionDescending
       /\ ReadFails(r.s, BlockIndex(r.s)[Len(BlockIndex(r.s))])
    THEN [iter |-> [r EXCEPT !.blockRowIdx = 0], err |-> "Read"]
    ELSE SeekAt(r, key, SeekPosition(r, key, found))

\* RowIter.Seek: [iter, err]
RowIter_Seek(r, key) == SeekWith(r, key, SeekStat(r.s, key))

----------------------------------------------------------------------------
(* sst.SegmentReader.GetRow: the row of key in one segment file.  The      *)
(* bloom filter only short-cuts a miss, and is left out.                   *)

\* the records of segment id as a reader decodes them, in write order
Decoded(id) ==
    [i \in 1..Len(FileRows(id)) |->
        KVPair(FileRows(id)[i].Key, Bytes(FileRows(id)[i].Value.b))]

\* the first record with the key among rows, NoRows when there is none;
\* blocks are the blocks read to get rows
ScanFor(rows, key, blocks) ==
    LET hit == {i \in 1..Len(rows) : rows[i].Key = key}
    IN IF hit = {} THEN [pair |-> ZeroKVPair, err |-> "NoRows", blocks |-> blocks]
       ELSE [pair |-> rows[CHOOSE i \in hit : \A j \in hit : i <= j],
             err |-> "nil", blocks |-> blocks]

\* a GetRow that reads every block of the segment
SegmentReader_GetRow_ScanAll(id, key) ==
    ScanFor(Decoded(id), key, {i : i \in 1..Len(Store[id])})

\* SegmentReader.GetRow: [pair, err, blocks], blocks the data blocks it read
SegmentReader_GetRow(id, key) ==
    LET walk == StatsDescendLE(id, key) IN
    IF walk = <<>> THEN [pair |-> ZeroKVPair, err |-> "NoRows", blocks |-> {}]
    ELSE IF ReadFails(id, walk[1])
    THEN [pair |-> ZeroKVPair, err |-> "Read", blocks |-> {walk[1].Block}]
    ELSE ScanFor(ReadBlockWithStat(id, walk[1]), key, {walk[1].Block})

\* the rows of one block that SegmentReader.GetRange keeps: those at or past
\* start, up to the first one at or past end
RangeRows(rows, start, end) ==
    LET past == {i \in 1..Len(rows) :
                   start <= rows[i].Key /\ end # UnboundEnd /\ rows[i].Key >= end}
        stop == IF past = {} THEN Len(rows) + 1
                ELSE CHOOSE i \in past : \A j \in past : i <= j
    IN SelectSeq(SubSeq(rows, 1, stop - 1), LAMBDA p : start <= p.Key)

\* the blocks SegmentReader.GetRange collects in its map: for the start, all
\* blocks below end when start is UnboundStart, else the block at or below
\* start and, when that block begins with start, the one before it; for the
\* end, the block at or below end, and with UnboundEnd every block from end on
RangeStats(id, start, end) ==
    LET idx == BlockIndex(id)
        down == StatsDescendLE(id, start)
        below == StatsDescendLE(id, end)
    IN (IF start = UnboundStart
        THEN {idx[i] : i \in {j \in 1..Len(idx) : idx[j].FirstKey < end}}
        ELSE {down[i] : i \in {j \in 1..Len(down) :
                                 j = 1 \/ (j = 2 /\ down[1].FirstKey = start)}})
       \cup {below[i] : i \in {j \in 1..Len(below) : j = 1}}
       \cup (IF end = UnboundEnd
             THEN {StatsAscendGE(id, end)[i] : i \in 1..Len(StatsAscendGE(id, end))}
             ELSE {})

\* the loop of GetRange over its map, order being the order in which the
\* range statement yields the map's entries
RECURSIVE RangeLoop(_, _, _, _, _, _)
RangeLoop(id, order, i, start, end, inclRows) ==
    IF i > Len(order) THEN [rows |-> inclRows, err |-> "nil"]
    ELSE IF ReadFails(id, order[i]) THEN [rows |-> <<>>, err |-> "Read"]
    ELSE RangeLoop(id, order, i + 1, start, end,
                   inclRows \o RangeRows(ReadBlockWithStat(id, order[i]), start, end))

\* the orders in which a range statement can yield the entries of a map
MapOrders(stats) ==
    {o \in [1..Cardinality(stats) -> stats] : \A i, j \in DOMAIN o : o[i] = o[j] => i = j}

\* SegmentReader.GetRange: [rows, err]
SegmentReader_GetRange(id, start, end, order) == RangeLoop(id, order, 1, start, end, <<>>)

----------------------------------------------------------------------------
(* snapshot_reader.Reader: the two indexes.  A btree is the sequence of    *)
(* its items in ascending order of its less function.                      *)

SegmentRecord(id, level, first, lastKey) ==
    [ID |-> id, Level |-> level, FirstKey |-> first, LastKey |-> lastKey]

\* the less function NewReader gives segmentIDTree
segmentIDLessFunc(a, b) == a.ID < b.ID

blockRangeLessFunc(a, b) ==
    IF a.FirstKey # b.FirstKey THEN a.FirstKey < b.FirstKey
    ELSE IF a.LastKey = 0 THEN FALSE
    ELSE IF b.LastKey = 0 THEN TRUE
    ELSE IF a.LastKey # b.LastKey THEN a.LastKey < b.LastKey
    ELSE IF a.ID = 0 THEN FALSE
    ELSE IF b.ID = 0 THEN TRUE
    ELSE a.ID < b.ID

\* the less function a tree was built with: New(2, ...) in NewReader
Less(tree, a, b) ==
    IF tree = "segmentIDTree" THEN segmentIDLessFunc(a, b)
    ELSE blockRangeLessFunc(a, b)

\* BTreeG.ReplaceOrInsert
ReplaceOrInsert(tree, t, x) ==
    LET same == {i \in 1..Len(t) : ~Less(tree, t[i], x) /\ ~Less(tree, x, t[i])}
        n == Cardinality({i \in 1..Len(t) : Less(tree, t[i], x)})
    IN IF same # {}
       THEN [t EXCEPT ![CHOOSE i \in same : TRUE] = x]
       ELSE SubSeq(t, 1, n) \o <<x>> \o SubSeq(t, n + 1, Len(t))

\* BTreeG.Delete: [tree, found]
Delete(tree, t, x) ==
    LET same == {i \in 1..Len(t) : ~Less(tree, t[i], x) /\ ~Less(tree, x, t[i])}
    IN IF same = {} THEN [tree |-> t, found |-> FALSE]
       ELSE LET i == CHOOSE j \in same : TRUE
            IN [tree |-> SubSeq(t, 1, i - 1) \o SubSeq(t, i + 1, Len(t)),
                found |-> TRUE]

\* BTreeG.DescendLessOrEqual(pivot): the items it visits, in visiting order
DescendLessOrEqual(tree, t, pivot) ==
    LET n == Cardinality({i \in 1..Len(t) : ~Less(tree, pivot, t[i])})
    IN [j \in 1..n |-> t[n + 1 - j]]

\* The iteration of a walk whose callback appends the item when it is in
\* range and returns keyInRange: the walk ends at the first item that is not.
\* keyInRange[i] is the callback's keyInRange for walk[i].
RECURSIVE TakeWhile(_, _, _)
TakeWhile(walk, keyInRange, i) ==
    IF i > Len(walk) \/ ~keyInRange[i] THEN <<>>
    ELSE <<walk[i]>> \o TakeWhile(walk, keyInRange, i + 1)

\* the drop loop of UpdateSegments: [ids, ranges]
RECURSIVE DropAll(_, _, _)
DropAll(ids, ranges, drop) ==
    IF drop = <<>> THEN [ids |-> ids, ranges |-> ranges]
    ELSE LET d == Delete("segmentIDTree", ids, Head(drop))
         IN IF ~d.found THEN DropAll(ids, ranges, Tail(drop))
            ELSE DropAll(d.tree,
                         Delete("blockRangeTree", ranges, Head(drop)).tree,
                         Tail(drop))

\* the add loop of UpdateSegments: [ids, ranges]
RECURSIVE AddAll(_, _, _)
AddAll(ids, ranges, add) ==
    IF add = <<>> THEN [ids |-> ids, ranges |-> ranges]
    ELSE AddAll(ReplaceOrInsert("segmentIDTree", ids, Head(add)),
                ReplaceOrInsert("blockRangeTree", ranges, Head(add)),
                Tail(add))

\* an UpdateSegments whose add loop runs before its drop loop
UpdateSegmentsResult_AddsFirst(ids, ranges, add, drop) ==
    LET added == AddAll(ids, ranges, add)
    IN DropAll(added.ids, added.ranges, drop)

\* Reader.UpdateSegments: the two trees after the call
UpdateSegmentsResult(ids, ranges, add, drop) ==
    LET dropped == DropAll(ids, ranges, drop)
    IN AddAll(dropped.ids, dropped.ranges, add)

getPossibleSegmentsForKey(ranges, key) ==
    LET walk == DescendLessOrEqual("blockRangeTree", ranges,
                                   SegmentRecord(0, 0, key, 0))
        keyInRange == [i \in 1..Len(walk) |->
                         key >= walk[i].FirstKey /\ key <= walk[i].LastKey]
    IN TakeWhile(walk, keyInRange, 1)

getPossibleSegmentsForRange(ranges, start, end) ==
    LET walk == DescendLessOrEqual("blockRangeTree", ranges,
                                   SegmentRecord(0, 0, end, 0))
        keyInRange == [i \in 1..Len(walk) |->
                         ~(start > walk[i].LastKey \/ end < walk[i].FirstKey)]
    IN TakeWhile(walk, keyInRange, 1)

\* the less function GetRow sorts its candidates with
GetRowLess(a, b) ==
    IF a.Level # b.Level THEN a.Level < b.Level ELSE a.ID > b.ID

\* the less function GetRange sorts its candidates with
GetRangeLess(direction, a, b) ==
    IF a.Level # b.Level THEN a.Level < b.Level
    ELSE IF a.Level = 0 /\ b.Level = 0 THEN a.ID > b.ID
    ELSE IF direction = DirectionAscending THEN a.FirstKey < b.FirstKey
    ELSE a.LastKey > b.LastKey

\* the less function handed to sort.Slice by caller by
SortLess(by, a, b) ==
    IF by.caller = "GetRow" THEN GetRowLess(a, b)
    ELSE GetRangeLess(by.direction, a, b)

\* sort.Slice on a slice of fewer than 12 elements: insertion sort
RECURSIVE InsertSorted(_, _, _)
InsertSorted(by, sorted, x) ==
    IF sorted = <<>> THEN <<x>>
    ELSE IF SortLess(by, x, sorted[Len(sorted)])
    THEN InsertSorted(by, SubSeq(sorted, 1, Len(sorted) - 1), x)
             \o <<sorted[Len(sorted)]>>
    ELSE sorted \o <<x>>

RECURSIVE SortSlice(_, _)
SortSlice(by, s) ==
    IF s = <<>> THEN <<>>
    ELSE InsertSorted(by, SortSlice(by, SubSeq(s, 1, Len(s) - 1)), s[Len(s)])

----------------------------------------------------------------------------
(* Reader.GetRow                                                           *)

\* the loop of GetRow over the sorted candidates; opened lists the records
\* handed to the reader factory so far
RECURSIVE GetRowLoop(_, _, _, _)
GetRowLoop(possibleSegments, i, key, opened) ==
    IF i > Len(possibleSegments)
    THEN [value |-> NilBytes, err |-> "NoRows", opened |-> opened]
    ELSE IF FactoryFails(possibleSegments[i].ID)
    THEN [value |-> NilBytes, err |-> "Factory",
          opened |-> Append(opened, possibleSegments[i].ID)]
    ELSE LET segment == possibleSegments[i]
             got == SegmentReader_GetRow(segment.ID, key)
             nowOpened == Append(opened, segment.ID)
         IN IF got.err = "NoRows"
            THEN GetRowLoop(possibleSegments, i + 1, key, nowOpened)
            ELSE IF got.err # "nil"
            THEN [value |-> NilBytes, err |-> got.err, opened |-> nowOpened]
            ELSE IF IsEmptyBytes(got.pair.Value) /\ segment.Level = 0
            THEN [value |-> NilBytes, err |-> "NoRows", opened |-> nowOpened]
            ELSE [value |-> got.pair.Value, err |-> "nil", opened |-> nowOpened]

\* the readers among opened that the factory returned
Readers(opened) == SelectSeq(opened, LAMBDA id : ~FactoryFails(id))

\* Reader.GetRow: [value, err, opened, candidates, closed]; closed lists the
\* readers closed when the call returns, each by the defer that follows its
\* construction
GetRow(ranges, key) ==
    LET possibleSegments == getPossibleSegmentsForKey(ranges, key)
        res == GetRowLoop(SortSlice([caller |-> "GetRow"], possibleSegments), 1, key, <<>>)
    IN [value |-> res.value, err |-> res.err, opened |-> res.opened,
        candidates |-> possibleSegments, closed |-> Readers(res.opened)]

----------------------------------------------------------------------------
(* Reader.GetRange                                                         *)

firstValue(a, b, direction) ==
    IF a = b THEN 0
    ELSE IF direction = DirectionDescending
    THEN (IF a > b THEN 1 ELSE 0 - 1)
    ELSE (IF a < b THEN 1 ELSE 0 - 1)

\* the compare function GetRange hands to findMaxIndexes
compare(a, b, direction) == firstValue(a.Key, b.Key, direction)

RECURSIVE FindMaxLoop(_, _, _, _, _)
FindMaxLoop(arr, direction, i, max, indexes) ==
    IF i > Len(arr) THEN indexes
    ELSE LET cmp == compare(arr[i], max, direction)
         IN IF cmp > 0 THEN FindMaxLoop(arr, direction, i + 1, arr[i], <<i>>)
            ELSE IF cmp = 0
            THEN FindMaxLoop(arr, direction, i + 1, max, Append(indexes, i))
            ELSE FindMaxLoop(arr, direction, i + 1, max, indexes)

\* findMaxIndexes over the cursors, with compare for the scan's direction:
\* the (1-based) indexes of the largest values of arr
findMaxIndexes(arr, direction) ==
    IF arr = <<>> THEN <<>> ELSE FindMaxLoop(arr, direction, 2, arr[1], <<1>>)

\* One turn of the setup loop, primed being what the first Next returned
RECURSIVE SetupIters(_, _, _, _, _, _, _)
SetupPrimed(possibleSegments, i, startRange, direction, iters, cursors, opened, primed) ==
    IF primed.err # "nil"
    THEN [iters |-> iters, cursors |-> cursors, opened |-> opened, err |-> primed.err]
    ELSE SetupIters(possibleSegments, i + 1, startRange, direction,
                    Append(iters, primed.iter), Append(cursors, primed.pair), opened)

\* One turn of the setup loop, sought being what Seek returned
SetupSought(possibleSegments, i, startRange, direction, iters, cursors, opened, sought) ==
    IF sought.err # "nil"
    THEN [iters |-> iters, cursors |-> cursors, opened |-> opened, err |-> sought.err]
    ELSE SetupPrimed(possibleSegments, i, startRange, direction, iters, cursors,
                     opened, RowIter_Next(sought.iter))

\* The loop that opens, seeks and primes one iterator per candidate:
\* [iters, cursors, opened, err]
SetupIters(possibleSegments, i, startRange, direction, iters, cursors, opened) ==
    IF i > Len(possibleSegments)
    THEN [iters |-> iters, cursors |-> cursors, opened |-> opened, err |-> "nil"]
    ELSE IF FactoryFails(possibleSegments[i].ID)
    THEN [iters |-> iters, cursors |-> cursors,
          opened |-> Append(opened, possibleSegments[i].ID), err |-> "Factory"]
    ELSE SetupSought(possibleSegments, i, startRange, direction, iters, cursors,
                     Append(opened, possibleSegments[i].ID),
                     RowIter_Seek(NewRowIter(possibleSegments[i].ID, direction),
                                  startRange))

\* The cursor at ind after Next returned n while rolling past a tombstone:
\* it takes what Next returned, and any failure, io.EOF included, is an error
RollTombstoneCursor(iters, cursors, ind, n) ==
    [iters |-> [iters EXCEPT ![ind] = n.iter],
     cursors |-> [cursors EXCEPT ![ind] = n.pair],
     err |-> n.err]

\* Rolling the tied cursors forward past a tombstone: [iters, cursors, err]
RECURSIVE RollTombstone(_, _, _, _)
RollTombstoneNext(rolled, nextIndexes, j) ==
    IF rolled.err # "nil" THEN rolled
    ELSE RollTombstone(rolled.iters, rolled.cursors, nextIndexes, j + 1)

RollTombstone(iters, cursors, nextIndexes, j) ==
    IF j > Len(nextIndexes) THEN [iters |-> iters, cursors |-> cursors, err |-> "nil"]
    ELSE RollTombstoneNext(
             RollTombstoneCursor(iters, cursors, nextIndexes[j],
                                 RowIter_Next(iters[nextIndexes[j]])),
             nextIndexes, j)

\* RollMatchingCursor with io.EOF storing what Next returned, the zero KVPair
RollMatchingCursor_StoreOnEOF(iters, cursors, ind, n) ==
    [iters |-> [iters EXCEPT ![ind] = n.iter],
     cursors |-> IF n.err \in {"nil", "EOF"}
                 THEN [cursors EXCEPT ![ind] = n.pair] ELSE cursors,
     err |-> IF n.err = "EOF" THEN "nil" ELSE n.err]

\* The cursor at ind after Next returned n once a row was taken: on io.EOF
\* the cursor keeps its old value and there is no error
RollMatchingCursor(iters, cursors, ind, n) ==
    [iters |-> [iters EXCEPT ![ind] = n.iter],
     cursors |-> IF n.err = "nil" THEN [cursors EXCEPT ![ind] = n.pair] ELSE cursors,
     err |-> IF n.err = "EOF" THEN "nil" ELSE n.err]

\* Rolling the tied cursors forward after a row was taken: [iters, cursors, err]
RECURSIVE RollMatching(_, _, _, _)
RollMatchingNext(rolled, nextIndexes, j) ==
    IF rolled.err # "nil" THEN rolled
    ELSE RollMatching(rolled.iters, rolled.cursors, nextIndexes, j + 1)

RollMatching(iters, cursors, nextIndexes, j) ==
    IF j > Len(nextIndexes) THEN [iters |-> iters, cursors |-> cursors, err |-> "nil"]
    ELSE RollMatchingNext(
             RollMatchingCursor(iters, cursors, nextIndexes[j],
                                RowIter_Next(iters[nextIndexes[j]])),
             nextIndexes, j)

\* OutOfRange with the descending bound taken as inclusive of start
OutOfRange_StartIncluded(key, start, end, direction) ==
    \/ direction = DirectionAscending /\ key >= end
    \/ direction = DirectionDescending /\ key < start

\* the range check of the merge loop: the scan ends at a row for which it holds
OutOfRange(key, start, end, direction) ==
    \/ direction = DirectionAscending /\ key >= end
    \/ direction = DirectionDescending /\ key <= start

\* The merge loop goes on with the rolled cursors, or fails with their error
RECURSIVE MergeLoop(_, _, _, _, _, _, _, _, _)
MergeRolled(possibleSegments, rolled, start, end, limit, direction, rows, lastKey) ==
    IF rolled.err # "nil" THEN [rows |-> <<>>, err |-> rolled.err]
    ELSE MergeLoop(possibleSegments, rolled.iters, rolled.cursors,
                   start, end, limit, direction, rows, lastKey)

\* One turn of the merge loop past the tombstone branch, row being the front
\* cursor.  rows has length limit, so storing a row at index limit is an
\* index-out-of-range panic.
MergeRow(possibleSegments, iters, cursors, start, end, limit, direction, rows, lastKey, nextIndexes, row) ==
    IF lastKey # 0 /\ row.Key = lastKey THEN [rows |-> rows, err |-> "nil"]
    ELSE IF OutOfRange(row.Key, start, end, direction)
    THEN [rows |-> rows, err |-> "nil"]
    ELSE IF Len(rows) >= limit THEN [rows |-> <<>>, err |-> "panic"]
    ELSE IF Len(rows) + 1 >= limit
    THEN [rows |-> Append(rows, row), err |-> "nil"]
    ELSE MergeRolled(possibleSegments, RollMatching(iters, cursors, nextIndexes, 1),
                     start, end, limit, direction, Append(rows, row), row.Key)

\* One turn of the merge loop, nextIndexes being the front cursors
MergeStep(possibleSegments, iters, cursors, start, end, limit, direction, rows, lastKey, nextIndexes) ==
    IF nextIndexes = <<>> THEN [rows |-> <<>>, err |-> "NoNextIndexFound"]
    ELSE IF possibleSegments[nextIndexes[1]].Level = 0
            /\ cursors[nextIndexes[1]].Value.nil
    THEN MergeRolled(possibleSegments, RollTombstone(iters, cursors, nextIndexes, 1),
                     start, end, limit, direction, rows, lastKey)
    ELSE MergeRow(possibleSegments, iters, cursors, start, end, limit, direction,
                  rows, lastKey, nextIndexes, cursors[nextIndexes[1]])

\* The merge loop: [rows, err]
MergeLoop(possibleSegments, iters, cursors, start, end, limit, direction, rows, lastKey) ==
    MergeStep(possibleSegments, iters, cursors, start, end, limit, direction, rows,
              lastKey, findMaxIndexes(cursors, direction))

\* InvalidRange with start = end let through
InvalidRange_EqualAllowed(start, end) == start > end

\* the precondition GetRange checks first
InvalidRange(start, end) == start >= end

\* GetRange once the merge loop has ended with merged: the deferred
\* CloseReader calls close the reader of every iterator
GetRangeResult(found, setup, merged) ==
    [rows |-> merged.rows, err |-> merged.err, opened |-> setup.opened,
     indexRead |-> TRUE, candidates |-> found, closed |-> setup.opened]

\* GetRange once the iterators are set up: an error of the setup loop returns
\* before any CloseReader is deferred
GetRangeMerge(found, possibleSegments, setup, start, end, limit, direction) ==
    IF setup.err # "nil"
    THEN [rows |-> <<>>, err |-> setup.err, opened |-> setup.opened,
          indexRead |-> TRUE, candidates |-> found, closed |-> <<>>]
    ELSE GetRangeResult(found, setup,
                        MergeLoop(possibleSegments, setup.iters, setup.cursors,
                                  start, end, limit, direction, <<>>, 0))

\* GetRange once the candidates are sorted: the scan starts from end when
\* descending, from start otherwise
GetRangeSorted(found, possibleSegments, start, end, limit, direction) ==
    GetRangeMerge(found, possibleSegments,
                  SetupIters(possibleSegments, 1,
                             IF direction = DirectionDescending THEN end ELSE start,
                             direction, <<>>, <<>>, <<>>),
                  start, end, limit, direction)

\* GetRange over the candidates found
GetRangeOver(found, start, end, limit, direction) ==
    IF found = <<>>
    THEN [rows |-> <<>>, err |-> "nil", opened |-> <<>>,
          indexRead |-> TRUE, candidates |-> found, closed |-> <<>>]
    ELSE GetRangeSorted(found,
                        SortSlice([caller |-> "GetRange", direction |-> direction],
                                  found),
                        start, end, limit, direction)

\* Reader.GetRange: [rows, err, opened, indexRead, candidates]
GetRange(ranges, start, end, limit, direction) ==
    IF InvalidRange(start, end)
    THEN [rows |-> <<>>, err |-> "InvalidRange", opened |-> <<>>,
          indexRead |-> FALSE, candidates |-> <<>>, closed |-> <<>>]
    ELSE GetRangeOver(getPossibleSegmentsForRange(ranges, start, end),
                      start, end, limit, direction)

----------------------------------------------------------------------------
(* The records callers pass to UpdateSegments                              *)

SegmentIDs == 1..5

\* the record of a segment with the key range of its file
FileRecord(id) ==
    SegmentRecord(id, SegmentLevel[id], FileFirstKey(id), FileLastKey(id))

\* a record that gives segment 2 another key range than FileRecord(2)
WiderRecord == SegmentRecord(2, 0, 1, 2)

\* a record that carries only the ID of segment 3
IDOnlyRecord == SegmentRecord(3, 0, 0, 0)

AddRecords == {FileRecord(id) : id \in SegmentIDs} \cup {WiderRecord}
DropRecords == AddRecords \cup {IDOnlyRecord}

SeqsUpTo(S, n) == UNION {[1..m -> S] : m \in 0..n}

ProbeKeys == 0..MaxKey \cup {UnboundEnd}
Directions == {DirectionAscending, DirectionDescending}

NoCall == [op |-> "none"]

----------------------------------------------------------------------------
(* The reader as a state machine: every call runs to completion            *)

IdleUpdate == [pc |-> "idle"]
IdleRead == [pc |-> "idle"]
NoIter == [s |-> 0]
NoSince == [from |-> "none"]

Init ==
    /\ segmentIDTree = <<>>
    /\ blockRangeTree = <<>>
    /\ last = NoCall
    /\ indexMu = [writer |-> FALSE, readers |-> 0]
    /\ update = IdleUpdate
    /\ read = IdleRead
    /\ established = [ids |-> <<>>, ranges |-> <<>>]
    /\ rowIter = NoIter
    /\ since = NoSince
    /\ writer = NoWriter
    /\ written = NoSegment

UpdateSegments(add, drop) ==
    /\ last = NoCall
    /\ LET res == UpdateSegmentsResult(segmentIDTree, blockRangeTree, add, drop)
       IN /\ segmentIDTree' = res.ids
          /\ blockRangeTree' = res.ranges
          /\ established' = res
    /\ UNCHANGED <<last, indexMu, update, read, iterVars, writerVars>>

CallGetRow(key) ==
    /\ last = NoCall
    /\ last' = [op |-> "GetRow", key |-> key, res |-> GetRow(blockRangeTree, key)]
    /\ UNCHANGED <<segmentIDTree, blockRangeTree, concVars, iterVars, writerVars>>

CallGetRange(start, end, limit, direction) ==
    /\ last = NoCall
    /\ last' = [op |-> "GetRange", start |-> start, end |-> end, limit |-> limit,
                direction |-> direction,
                res |-> GetRange(blockRangeTree, start, end, limit, direction)]
    /\ UNCHANGED <<segmentIDTree, blockRangeTree, concVars, iterVars, writerVars>>

\* the caller takes the result
Return ==
    /\ last # NoCall
    /\ last' = NoCall
    /\ UNCHANGED <<segmentIDTree, blockRangeTree, concVars, iterVars, writerVars>>

Next ==
    \/ \E add \in SeqsUpTo(AddRecords, MaxBatch), drop \in SeqsUpTo(DropRecords, MaxBatch) :
          UpdateSegments(add, drop)
    \/ \E key \in ProbeKeys : CallGetRow(key)
    \/ \E start \in ProbeKeys, end \in ProbeKeys, limit \in 0..MaxLimit,
          direction \in Directions :
          CallGetRange(start, end, limit, direction)
    \/ Return

Spec == Init /\ [][Next]_vars

----------------------------------------------------------------------------
(* The reader under concurrency: one goroutine inside UpdateSegments, which *)
(* changes the indexes one record at a time under indexMu.Lock, and one     *)
(* goroutine inside GetRow or GetRange, which collects its candidates under *)
(* indexMu.RLock and then opens them one at a time.                         *)

\* the records the concurrent updates add and drop
ConcRecords == {FileRecord(1), FileRecord(2), FileRecord(3)}

\* the keys the concurrent reads ask for
ConcKeys == {2, 3, 4}

\* the reads a goroutine starts; GetRange has checked start < end before it
\* collects
ConcReads ==
    {[op |-> "GetRow", key |-> k] : k \in ConcKeys}
    \cup {c \in {[op |-> "GetRange", start |-> st, end |-> en, limit |-> MaxLimit,
           direction |-> d] :
             st \in ConcKeys, en \in ConcKeys, d \in Directions} :
             c.start < c.end}

\* sync.RWMutex: RLock is granted with readers inside
CanRLock_Always(mu) == TRUE

\* sync.RWMutex: RLock waits while a writer holds the lock
CanRLock(mu) == ~mu.writer

\* sync.RWMutex: Lock waits for the writer and the readers inside
CanLock(mu) == ~mu.writer /\ mu.readers = 0

\* the candidates a read collects from the range index
Candidates(call, ranges) ==
    IF call.op = "GetRow" THEN getPossibleSegmentsForKey(ranges, call.key)
    ELSE getPossibleSegmentsForRange(ranges, call.start, call.end)

\* LoopSegments reading the index again
LoopSegments_Reread(call, possibleSegments, ranges) == Candidates(call, ranges)

\* the slice the loops of a read go over once it is collected: the local
\* possibleSegments, whatever the index holds by then
LoopSegments(call, possibleSegments, ranges) == possibleSegments

\* a read from its collected candidates on: [..., err, opened]
ReadRest(call, possibleSegments) ==
    IF call.op = "GetRow"
    THEN GetRowLoop(SortSlice([caller |-> "GetRow"], possibleSegments), 1,
                    call.key, <<>>)
    ELSE GetRangeOver(possibleSegments, call.start, call.end, call.limit,
                      call.direction)

\* the records a read hands to the reader factory, in order
ToOpen(call, possibleSegments) == ReadRest(call, possibleSegments).opened

\* UpdateSegments takes indexMu.Lock
UpdateLock(add, drop) ==
    /\ update = IdleUpdate
    /\ CanLock(indexMu)
    /\ indexMu' = [indexMu EXCEPT !.writer = TRUE]
    /\ update' = [pc |-> "run", add |-> add, drop |-> drop,
                  before |-> [ids |-> segmentIDTree, ranges |-> blockRangeTree],
                  after |-> UpdateSegmentsResult(segmentIDTree, blockRangeTree,
                                                 add, drop)]
    /\ UNCHANGED <<segmentIDTree, blockRangeTree, last, read, established, iterVars, writerVars>>

\* one turn of the drop loop
UpdateDrop ==
    /\ update.pc = "run"
    /\ update.drop # <<>>
    /\ LET res == DropAll(segmentIDTree, blockRangeTree, <<Head(update.drop)>>)
       IN /\ segmentIDTree' = res.ids
          /\ blockRangeTree' = res.ranges
    /\ update' = [update EXCEPT !.drop = Tail(update.drop)]
    /\ UNCHANGED <<last, indexMu, read, established, iterVars, writerVars>>

\* one turn of the add loop
UpdateAdd ==
    /\ update.pc = "run"
    /\ update.drop = <<>>
    /\ update.add # <<>>
    /\ LET res == AddAll(segmentIDTree, blockRangeTree, <<Head(update.add)>>)
       IN /\ segmentIDTree' = res.ids
          /\ blockRangeTree' = res.ranges
    /\ update' = [update EXCEPT !.add = Tail(update.add)]
    /\ UNCHANGED <<last, indexMu, read, established, iterVars, writerVars>>

\* UpdateSegments returns: the deferred indexMu.Unlock
UpdateUnlock ==
    /\ update.pc = "run"
    /\ update.drop = <<>>
    /\ update.add = <<>>
    /\ indexMu' = [indexMu EXCEPT !.writer = FALSE]
    /\ update' = IdleUpdate
    /\ established' = [ids |-> segmentIDTree, ranges |-> blockRangeTree]
    /\ UNCHANGED <<segmentIDTree, blockRangeTree, last, read, iterVars, writerVars>>

\* getPossibleSegmentsForKey / ForRange takes indexMu.RLock
ReadLock(call) ==
    /\ read = IdleRead
    /\ CanRLock(indexMu)
    /\ indexMu' = [indexMu EXCEPT !.readers = indexMu.readers + 1]
    /\ read' = [pc |-> "locked", call |-> call]
    /\ UNCHANGED <<segmentIDTree, blockRangeTree, last, update, established, iterVars, writerVars>>

\* a collection that returns with the read lock still held
ReadCollect_LockKept ==
    /\ read.pc = "locked"
    /\ read' = [pc |-> "collected", call |-> read.call,
                candidates |-> Candidates(read.call, blockRangeTree),
                opened |-> <<>>,
                at |-> established.ranges,
                before |-> IF update.pc = "run" THEN update.before.ranges
                           ELSE established.ranges,
                after |-> IF update.pc = "run" THEN update.after.ranges
                          ELSE established.ranges]
    /\ UNCHANGED <<segmentIDTree, blockRangeTree, last, indexMu, update, established, iterVars, writerVars>>

\* the walk of the range index and the deferred indexMu.RUnlock.  at, before
\* and after record what the walk could have seen: the indexes as last
\* established, and as the update in flight found and will leave them.
ReadCollect ==
    /\ read.pc = "locked"
    /\ indexMu' = [indexMu EXCEPT !.readers = indexMu.readers - 1]
    /\ read' = [pc |-> "collected", call |-> read.call,
                candidates |-> Candidates(read.call, blockRangeTree),
                opened |-> <<>>,
                at |-> established.ranges,
                before |-> IF update.pc = "run" THEN update.before.ranges
                           ELSE established.ranges,
                after |-> IF update.pc = "run" THEN update.after.ranges
                          ELSE established.ranges]
    /\ UNCHANGED <<segmentIDTree, blockRangeTree, last, update, established, iterVars, writerVars>>

\* the read hands its next record to the reader factory, toOpen being the
\* records it hands over in all
ReadOpens(toOpen) ==
    /\ Len(read.opened) < Len(toOpen)
    /\ read' = [read EXCEPT !.opened = Append(read.opened,
                                              toOpen[Len(read.opened) + 1])]

\* the read hands its next record to the reader factory
ReadOpen ==
    /\ read.pc = "collected"
    /\ ReadOpens(ToOpen(read.call,
                        LoopSegments(read.call, read.candidates, blockRangeTree)))
    /\ UNCHANGED <<segmentIDTree, blockRangeTree, last, indexMu, update, established, iterVars, writerVars>>

\* the read returns
ReadReturn ==
    /\ read.pc = "collected"
    /\ Len(read.opened) >= Len(ToOpen(read.call,
                                LoopSegments(read.call, read.candidates, blockRangeTree)))
    /\ read' = IdleRead
    /\ UNCHANGED <<segmentIDTree, blockRangeTree, last, indexMu, update, established, iterVars, writerVars>>

ConcNext ==
    \/ \E add \in SeqsUpTo(ConcRecords, MaxBatch), drop \in SeqsUpTo(ConcRecords, MaxBatch) :
          UpdateLock(add, drop)
    \/ UpdateDrop
    \/ UpdateAdd
    \/ UpdateUnlock
    \/ \E call \in ConcReads : ReadLock(call)
    \/ ReadCollect
    \/ ReadOpen
    \/ ReadReturn

ConcSpec == Init /\ [][ConcNext]_vars

----------------------------------------------------------------------------
(* One segment file read directly: a RowIter a caller constructs, seeks,    *)
(* advances and closes, and SegmentReader.GetRow.                           *)

\* SegmentReader.Close, as RowIter.CloseReader calls it: the reader is closed
Close(r) == [r EXCEPT !.closed = TRUE]

\* SegmentReader.RowIter(direction)
NewIter(id, direction) ==
    /\ rowIter' = NewRowIter(id, direction)
    /\ since' = [from |-> "new", key |-> 0, err |-> "nil", nexts |-> <<>>,
                 reads |-> <<>>, closedAt |-> 0]
    /\ last' = NoCall
    /\ UNCHANGED <<readerVars, writerVars>>

\* RowIter.Next
IterNext ==
    /\ rowIter # NoIter
    /\ Len(since.nexts) < MaxNexts
    /\ LET n == RowIter_Next(rowIter)
       IN /\ rowIter' = n.iter
          /\ since' = [since EXCEPT !.nexts = Append(since.nexts,
                                                   [pair |-> n.pair, err |-> n.err]),
                                    !.reads = Append(since.reads, n.blocks)]
    /\ UNCHANGED <<last, readerVars, writerVars>>

\* RowIter.Seek(key)
IterSeek(key) ==
    /\ rowIter # NoIter
    /\ LET sk == RowIter_Seek(rowIter, key)
       IN /\ rowIter' = sk.iter
          /\ since' = [from |-> "seek", key |-> key, err |-> sk.err, nexts |-> <<>>,
                       reads |-> <<>>,
                       closedAt |-> IF rowIter.closed THEN 0 - 1 ELSE 0]
    /\ UNCHANGED <<last, readerVars, writerVars>>

\* RowIter.CloseReader; closedAt records how many rows Next had returned
IterCloseReader ==
    /\ rowIter # NoIter
    /\ ~rowIter.closed
    /\ rowIter' = Close(rowIter)
    /\ since' = [since EXCEPT !.closedAt = Len(since.nexts) + 1]
    /\ UNCHANGED <<last, readerVars, writerVars>>

\* SegmentReader.GetRow(key) on the file of segment id
CallSegmentGetRow(id, key) ==
    /\ rowIter = NoIter
    /\ last' = [op |-> "SegmentReader.GetRow", id |-> id, key |-> key,
                res |-> SegmentReader_GetRow(id, key)]
    /\ UNCHANGED <<iterVars, readerVars, writerVars>>

\* SegmentReader.GetRange(start, end) on the file of segment id
CallSegmentGetRange(id, start, end) ==
    /\ rowIter = NoIter
    /\ \E order \in MapOrders(RangeStats(id, start, end)) :
          last' = [op |-> "SegmentReader.GetRange", id |-> id, start |-> start,
                   end |-> end,
                   res |-> SegmentReader_GetRange(id, start, end, order)]
    /\ UNCHANGED <<iterVars, readerVars, writerVars>>

SegmentNext ==
    \/ \E id \in DOMAIN Store, direction \in Directions : NewIter(id, direction)
    \/ IterNext
    \/ \E key \in ProbeKeys : IterSeek(key)
    \/ IterCloseReader
    \/ \E id \in DOMAIN Store, key \in ProbeKeys : CallSegmentGetRow(id, key)
    \/ \E id \in DOMAIN Store, start \in ProbeKeys, end \in ProbeKeys :
          CallSegmentGetRange(id, start, end)

SegmentSpec == Init /\ [][SegmentNext]_vars

----------------------------------------------------------------------------
(* Segment files as bytes: SegmentWriter                                   *)

\* binary.LittleEndian.AppendUint16 / AppendUint64: n in width bytes
RECURSIVE LittleEndian(_, _)
LittleEndian(n, width) ==
    IF width = 0 THEN <<>> ELSE <<n % 256>> \o LittleEndian(n \div 256, width - 1)

\* binary.LittleEndian.Uint16 / Uint64
RECURSIVE Uint(_)
Uint(b) == IF b = <<>> THEN 0 ELSE b[1] + 256 * Uint(Tail(b))

\* xxhash.Sum64, as a checksum that depends on every byte and its position:
\* the sum over bytes lo..hi of position times byte, halving the range
RECURSIVE Sum64Range(_, _, _)
Sum64Range(b, lo, hi) ==
    IF lo > hi THEN 0
    ELSE IF lo = hi THEN (lo * (b[lo] + 1)) % 65521
    ELSE (Sum64Range(b, lo, (lo + hi) \div 2)
            + Sum64Range(b, (lo + hi) \div 2 + 1, hi)) % 65521

Sum64(b) == (7 + Sum64Range(b, 1, Len(b))) % 65521

\* what a zstd encoder has written to its sink once closed: a frame around
\* the rows it was given
ZstdFrame(raw) == <<40, 181, 47, 253>> \o raw

\* bytes.Compare(a, b) < 0
RECURSIVE BytesLess(_, _)
BytesLess(a, b) ==
    IF a = b \/ b = <<>> THEN FALSE
    ELSE IF a = <<>> THEN TRUE
    ELSE IF a[1] # b[1] THEN a[1] < b[1]
    ELSE BytesLess(Tail(a), Tail(b))

\* bloom.BloomFilter.Add: the bits set so far, one bit per last key byte mod 8
\* (bit 0 for the empty key)
BloomAdd(bits, key) ==
    LET bit == IF key = <<>> THEN 0 ELSE key[Len(key)] % 8
    IN IF (bits \div (2 ^ bit)) % 2 = 1 THEN bits ELSE bits + 2 ^ bit

useZSTD(options) == options.ZSTDCompressionLevel > 0
useLZ4(options) == ~useZSTD(options) /\ options.LZ4Compression

\* NewSegmentWriter; externalWriter holds the bytes written to the sink,
\* encoder the rows a zstd encoder holds until it is closed.  The sink takes
\* every write whole, as the bytes.Buffer of the tests does.  Kept beside the
\* struct: rows and keys, the rows written and their keys; closes, the Close
\* calls that succeeded; err, what the last call returned; failed, whether
\* an earlier call returned an error.
NewSegmentWriter(opts) ==
    [made |-> TRUE, options |-> opts, externalWriter |-> <<>>, blockIndex |-> <<>>,
     currentRawBlockSize |-> 0, currentBlockStartKey |-> <<>>,
     blockBuffer |-> <<>>, blockWriter |-> "nil", encoder |-> <<>>,
     currentByteOffset |-> 0, lastKey |-> <<>>, closed |-> FALSE,
     rows |-> 0, keys |-> <<>>, closes |-> 0, err |-> "nil", failed |-> FALSE]

\* a flushCurrentDataBlock that advances the offset by the length before
\* padding
flushCurrentDataBlock_AdvanceUnpadded(s) ==
    LET buffer == IF s.blockWriter = "zstd"
                  THEN s.blockBuffer \o ZstdFrame(s.encoder) ELSE s.blockBuffer
        remainder == s.options.DataBlockSize - (Len(buffer) % s.options.DataBlockSize)
        blockBytes == buffer \o [i \in 1..remainder |-> 0]
    IN [s EXCEPT
           !.blockIndex = Append(s.blockIndex,
               [offset |-> s.currentByteOffset,
                rawBytes |-> s.currentRawBlockSize,
                firstKey |-> s.currentBlockStartKey,
                compressedBytes |-> IF useZSTD(s.options) \/ useLZ4(s.options)
                                    THEN Len(buffer) ELSE 0,
                finalBytes |-> Len(blockBytes),
                hash |-> Sum64(blockBytes)]),
           !.blockBuffer = blockBytes,
           !.externalWriter = s.externalWriter \o blockBytes,
           !.blockWriter = "nil",
           !.encoder = <<>>,
           !.currentByteOffset = s.currentByteOffset + Len(buffer)]

\* SegmentWriter.flushCurrentDataBlock: the encoder is closed, the stat
\* taken, the buffer padded by DataBlockSize - len % DataBlockSize zero
\* bytes, hashed and written to the sink
flushCurrentDataBlock(s) ==
    LET buffer == IF s.blockWriter = "zstd"
                  THEN s.blockBuffer \o ZstdFrame(s.encoder) ELSE s.blockBuffer
        remainder == s.options.DataBlockSize - (Len(buffer) % s.options.DataBlockSize)
        blockBytes == buffer \o [i \in 1..remainder |-> 0]
    IN [s EXCEPT
           !.blockIndex = Append(s.blockIndex,
               [offset |-> s.currentByteOffset,
                rawBytes |-> s.currentRawBlockSize,
                firstKey |-> s.currentBlockStartKey,
                compressedBytes |-> IF useZSTD(s.options) \/ useLZ4(s.options)
                                    THEN Len(buffer) ELSE 0,
                finalBytes |-> Len(blockBytes),
                hash |-> Sum64(blockBytes)]),
           !.blockBuffer = blockBytes,
           !.externalWriter = s.externalWriter \o blockBytes,
           !.blockWriter = "nil",
           !.encoder = <<>>,
           !.currentByteOffset = s.currentByteOffset + Len(blockBytes)]

\* A []byte value argument is [pages, bytes], a value of pages * 65536 +
\* Len(bytes) bytes.  Lengths from 2^31 on are beyond the integers at hand,
\* so they are counted in pages of 65536 bytes; of a value with whole pages
\* only the length is held, which is all WriteRow reads of a value it rejects.

\* the six length bytes of a row followed by its key and value
RowBuf(key, val) ==
    LittleEndian(Len(key), 2) \o LittleEndian(Len(val.bytes), 4) \o key \o val.bytes

\* a WriteRow that rejects keys and values from the limits on
WriteRowError_LimitsRejected(s, key, val) ==
    IF Len(key) >= MaxUint16 THEN "KeyTooLarge"
    ELSE IF val.pages + (Len(val.bytes) \div (MaxUint16 + 1)) >= MaxUint16
    THEN "ValueTooLarge"
    ELSE IF s.closed THEN "WriterClosed"
    ELSE "nil"

\* a WriteRow that does not look at closed
WriteRowError_ClosedUnchecked(s, key, val) ==
    IF Len(key) > MaxUint16 THEN "KeyTooLarge"
    ELSE IF val.pages + (Len(val.bytes) \div (MaxUint16 + 1)) > MaxUint16
    THEN "ValueTooLarge"
    ELSE "nil"

\* the tests WriteRow starts with: len(key) > math.MaxUint16, then
\* len(val) > math.MaxUint32 (more than MaxUint16 whole pages), then closed
WriteRowError(s, key, val) ==
    IF Len(key) > MaxUint16 THEN "KeyTooLarge"
    ELSE IF val.pages + (Len(val.bytes) \div (MaxUint16 + 1)) > MaxUint16
    THEN "ValueTooLarge"
    ELSE IF s.closed THEN "WriterClosed"
    ELSE "nil"

\* a WriteRow that takes the block's start key from every row
OpenBlock_EveryRow(s, key) ==
    IF s.blockWriter # "nil" THEN [s EXCEPT !.currentBlockStartKey = key]
    ELSE [s EXCEPT !.currentBlockStartKey = key,
                   !.currentRawBlockSize = 0,
                   !.blockBuffer = <<>>,
                   !.encoder = <<>>,
                   !.blockWriter = IF useZSTD(s.options) THEN "zstd" ELSE "buffer"]

\* WriteRow on a writer without a block writer: the block starts at key,
\* with an empty buffer and a zstd encoder or the buffer itself to write to
OpenBlock(s, key) ==
    IF s.blockWriter # "nil" THEN s
    ELSE [s EXCEPT !.currentBlockStartKey = key,
                   !.currentRawBlockSize = 0,
                   !.blockBuffer = <<>>,
                   !.encoder = <<>>,
                   !.blockWriter = IF useZSTD(s.options) THEN "zstd" ELSE "buffer"]

\* SegmentWriter.WriteRow.  After the tests of lengths and closed, a writer
\* without a block gets a fresh one, the row goes to the block writer, and
\* the block is flushed once its buffer is long enough.
SegmentWriter_WriteRow(s, key, val) ==
    LET opened == OpenBlock(s, key)
        buffered == [opened EXCEPT
                        !.lastKey = key,
                        !.blockBuffer = IF opened.blockWriter = "zstd" THEN @
                                        ELSE @ \o RowBuf(key, val),
                        !.encoder = IF opened.blockWriter = "zstd"
                                    THEN @ \o RowBuf(key, val) ELSE @,
                        !.currentRawBlockSize = @ + Len(RowBuf(key, val)),
                        !.options = IF opened.options.BloomFilter.nil THEN @
                                    ELSE [@ EXCEPT !.BloomFilter.bits = BloomAdd(@, key)],
                        !.rows = @ + 1,
                        !.keys = Append(@, key),
                        !.err = "nil"]
    IN IF WriteRowError(s, key, val) # "nil"
       THEN [s EXCEPT !.err = WriteRowError(s, key, val)]
       ELSE IF Len(buffered.blockBuffer) >= buffered.options.DataBlockThresholdBytes
       THEN flushCurrentDataBlock(buffered)
       ELSE buffered

\* a toBytes that writes the raw length before the final length
toBytes_RawBeforeFinal(bs) ==
    LittleEndian(Len(bs.firstKey), 2) \o bs.firstKey
      \o LittleEndian(bs.offset, 8)
      \o LittleEndian(bs.rawBytes, 8)
      \o LittleEndian(bs.finalBytes, 8)
      \o LittleEndian(bs.compressedBytes, 8)
      \o LittleEndian(bs.hash, 8)

\* blockStat.toBytes
toBytes(bs) ==
    LittleEndian(Len(bs.firstKey), 2) \o bs.firstKey
      \o LittleEndian(bs.offset, 8)
      \o LittleEndian(bs.finalBytes, 8)
      \o LittleEndian(bs.rawBytes, 8)
      \o LittleEndian(bs.compressedBytes, 8)
      \o LittleEndian(bs.hash, 8)

\* the loop of generateMetaBlock over the block index
RECURSIVE IndexBytes(_, _)
IndexBytes(blockIndex, i) ==
    IF i > Len(blockIndex) THEN <<>>
    ELSE toBytes(blockIndex[i]) \o IndexBytes(blockIndex, i + 1)

\* SegmentWriter.generateMetaBlock: first and last key, the bloom filter
\* block (BloomFilter.WriteTo gives the one byte of bits), the compression
\* byte, the index type byte, the number of stats and the stats
generateMetaBlock(s) ==
    LittleEndian(Len(s.blockIndex[1].firstKey), 2) \o s.blockIndex[1].firstKey
      \o LittleEndian(Len(s.lastKey), 2) \o s.lastKey
      \o (IF s.options.BloomFilter.nil THEN <<0>>
          ELSE <<1>> \o LittleEndian(1, 8) \o <<s.options.BloomFilter.bits>>)
      \o (IF useZSTD(s.options) THEN <<1>>
          ELSE IF useLZ4(s.options) THEN <<2>> ELSE <<0>>)
      \o <<0>>
      \o LittleEndian(Len(s.blockIndex), 8)
      \o IndexBytes(s.blockIndex, 1)

\* a Close without the test for an empty block index: generateMetaBlock
\* indexes the first block stat and panics
SegmentWriter_Close_NoRowsUnchecked(s) ==
    LET flushed == IF s.blockWriter # "nil" THEN flushCurrentDataBlock(s) ELSE s
        metaBlockBytes == generateMetaBlock(flushed)
        metaBlockStartOffset == flushed.currentByteOffset + Len(metaBlockBytes)
    IN IF Len(flushed.blockIndex) = 0
       THEN [s |-> [flushed EXCEPT !.err = "panic"],
             n |-> 0, meta |-> <<>>, err |-> "panic"]
       ELSE [s |-> [flushed EXCEPT
                       !.externalWriter = @ \o metaBlockBytes
                           \o LittleEndian(metaBlockStartOffset, 8)
                           \o LittleEndian(Sum64(metaBlockBytes), 8) \o <<1>>,
                       !.currentByteOffset = metaBlockStartOffset + 17,
                       !.closed = TRUE,
                       !.closes = @ + 1,
                       !.err = "nil"],
             n |-> metaBlockStartOffset + 17,
             meta |-> metaBlockBytes,
             err |-> "nil"]

\* SegmentWriter.Close: [s, n, meta, err].  The open block is flushed and the
\* meta block written; currentByteOffset is advanced past the meta block
\* before metaBlockStartOffset is taken from it; then come the 17 bytes of
\* offset, hash and version.
SegmentWriter_Close(s) ==
    LET flushed == IF s.blockWriter # "nil" THEN flushCurrentDataBlock(s) ELSE s
        metaBlockBytes == generateMetaBlock(flushed)
        metaBlockStartOffset == flushed.currentByteOffset + Len(metaBlockBytes)
    IN IF Len(flushed.blockIndex) = 0
       THEN [s |-> [flushed EXCEPT !.err = "NoRows"],
             n |-> 0, meta |-> <<>>, err |-> "NoRows"]
       ELSE [s |-> [flushed EXCEPT
                       !.externalWriter = @ \o metaBlockBytes
                           \o LittleEndian(metaBlockStartOffset, 8)
                           \o LittleEndian(Sum64(metaBlockBytes), 8) \o <<1>>,
                       !.currentByteOffset = metaBlockStartOffset + 17,
                       !.closed = TRUE,
                       !.closes = @ + 1,
                       !.err = "nil"],
             n |-> metaBlockStartOffset + 17,
             meta |-> metaBlockBytes,
             err |-> "nil"]

----------------------------------------------------------------------------
(* Segment files as bytes: SegmentReader                                   *)

\* mustReadBytes(reader, n) on a bytes.Reader [bytes, pos, out, panic], out
\* the bytes of the last read: bytes.Reader.Read fails at the end of the
\* bytes and readBytes fails on a short read; either failure panics
mustReadBytes(reader, n) ==
    IF ~reader.panic /\ reader.pos < Len(reader.bytes) /\ reader.pos + n <= Len(reader.bytes)
    THEN [reader EXCEPT !.pos = @ + n,
                        !.out = SubSeq(reader.bytes, reader.pos + 1, reader.pos + n)]
    ELSE [reader EXCEPT !.panic = TRUE, !.out = <<>>]

\* mustReadBytes for as many bytes as the number just read says
ReadSized(sized) == mustReadBytes(sized, IF sized.panic THEN 0 ELSE Uint(sized.out))

\* a uint16 length and that many bytes
ReadKey(metaReader) == ReadSized(mustReadBytes(metaReader, 2))

\* SegmentReader.parseBloomFilterBlock: [reader, filter]; BloomFilter.ReadFrom
\* takes the bits from the one byte WriteTo gave
parseBloomFilterBlock(metaReader) ==
    LET enabled == mustReadBytes(metaReader, 1)
        body == ReadSized(mustReadBytes(enabled, 8))
    IN IF enabled.panic \/ enabled.out # <<1>>
       THEN [reader |-> enabled, filter |-> [nil |-> TRUE]]
       ELSE [reader |-> body,
             filter |-> IF body.panic \/ body.out = <<>> THEN [nil |-> TRUE]
                        ELSE [nil |-> FALSE, bits |-> body.out[1]]]

\* the five uint64 reads of one turn of parseBlockIndex's loop
RECURSIVE ReadUints(_, _, _)
ReadUints(reader, n, fields) ==
    LET got == mustReadBytes(reader, 8)
    IN IF n = 0 THEN [reader |-> reader, fields |-> fields]
       ELSE ReadUints(got, n - 1, Append(fields, IF got.panic THEN 0 ELSE Uint(got.out)))

\* BTreeG.ReplaceOrInsert under the less function of parseBlockIndex
IndexInsert(t, stat) ==
    SelectSeq(t, LAMBDA x : BytesLess(x.FirstKey, stat.FirstKey))
      \o <<stat>>
      \o SelectSeq(t, LAMBDA x : BytesLess(stat.FirstKey, x.FirstKey))

\* the loop of parseBlockIndex: [reader, t]
RECURSIVE ParseStats(_, _, _)
ParseStats(reader, numEntries, t) ==
    LET key == ReadKey(reader)
        got == ReadUints(key, 5, <<>>)
    IN IF numEntries = 0 \/ reader.panic THEN [reader |-> reader, t |-> t]
       ELSE ParseStats(got.reader, numEntries - 1,
                       IndexInsert(t, [FirstKey |-> key.out,
                                       Offset |-> got.fields[1],
                                       BlockSize |-> got.fields[2],
                                       OriginalSize |-> got.fields[3],
                                       CompressedSize |-> got.fields[4],
                                       Hash |-> got.fields[5]]))

\* a parseBlockIndex that takes a count of zero
parseBlockIndex_ZeroEntriesAllowed(metaReader) ==
    LET counted == mustReadBytes(mustReadBytes(metaReader, 1), 8)
        parsed == ParseStats(counted, Uint(counted.out), <<>>)
    IN IF counted.panic THEN [reader |-> counted, t |-> <<>>, err |-> "nil"]
       ELSE [reader |-> parsed.reader, t |-> parsed.t, err |-> "nil"]

\* SegmentReader.parseBlockIndex: [reader, t, err]
parseBlockIndex(metaReader) ==
    LET counted == mustReadBytes(mustReadBytes(metaReader, 1), 8)
        parsed == ParseStats(counted, Uint(counted.out), <<>>)
    IN IF counted.panic THEN [reader |-> counted, t |-> <<>>, err |-> "nil"]
       ELSE IF Uint(counted.out) = 0
       THEN [reader |-> counted, t |-> <<>>, err |-> "InvalidMetaBlock"]
       ELSE [reader |-> parsed.reader, t |-> parsed.t, err |-> "nil"]

\* what BytesToMetadata and FetchAndLoadMetadata return when they fail
Failed(err) == [metadata |-> [nil |-> TRUE], err |-> err, read |-> 0]

\* SegmentReader.BytesToMetadata: [metadata, err, read], read the number of
\* meta bytes the parser consumed
BytesToMetadata(metaBlockBytes) ==
    LET firstKey == ReadKey([bytes |-> metaBlockBytes, pos |-> 0,
                             out |-> <<>>, panic |-> FALSE])
        lastKey == ReadKey(firstKey)
        bloom == parseBloomFilterBlock(lastKey)
        compression == mustReadBytes(bloom.reader, 1)
        index == parseBlockIndex(compression)
    IN IF index.reader.panic THEN Failed("panic")
       ELSE IF index.err # "nil" THEN Failed(index.err)
       ELSE [metadata |-> [nil |-> FALSE,
                           FirstKey |-> firstKey.out, LastKey |-> lastKey.out,
                           BloomFilter |-> bloom.filter,
                           ZSTDCompression |-> compression.out = <<1>>,
                           LZ4Compression |-> compression.out = <<2>>,
                           BlockIndex |-> index.t],
             err |-> "nil",
             read |-> index.reader.pos]

\* reader.Seek(offset, io.SeekStart) and reader.Read into make([]byte, n) on
\* a bytes.Reader: as many bytes as there are, the rest of the buffer zero
ReadAt(file, offset, n) ==
    IF offset >= Len(file) THEN [bytes |-> [i \in 1..n |-> 0], err |-> "EOF"]
    ELSE [bytes |-> [i \in 1..n |-> IF offset + i <= Len(file) THEN file[offset + i] ELSE 0],
          err |-> "nil"]

\* SegmentReader.FetchAndLoadMetadata on a reader over file, constructed
\* with fileBytes: [metadata, err, read]
FetchAndLoadMetadata(file, fileBytes) ==
    LET finalSegmentBytes == SubSeq(file, Len(file) - 16, Len(file))
        metaBlockOffset == Uint(SubSeq(finalSegmentBytes, 1, 8))
        metaBlockHash == Uint(SubSeq(finalSegmentBytes, 9, 16))
        metaBlock == ReadAt(file, metaBlockOffset, fileBytes - metaBlockOffset - 17)
    IN IF Len(file) < 17 THEN Failed("Seek")
       ELSE IF finalSegmentBytes[17] # 1 THEN Failed("UnknownSegmentVersion")
       ELSE IF fileBytes - metaBlockOffset - 17 < 0 THEN Failed("panic")
       ELSE IF metaBlock.err # "nil" THEN Failed("Read")
       ELSE IF Sum64(metaBlock.bytes) # metaBlockHash THEN Failed("MismatchedMetaBlockHash")
       ELSE BytesToMetadata(metaBlock.bytes)

----------------------------------------------------------------------------
(* Writing a segment and reading its metadata back                         *)

\* keys of the rows written, as bytes of different lengths, the empty key
\* among them
WriterKeys == {<<>>, <<1>>, <<2>>, <<2, 1>>, <<3>>}

\* the rows of a segment, of 6 to 9 bytes: each key with an empty value or a
\* value of one byte
SegmentRows ==
    {<<key, [pages |-> 0, bytes |-> IF key \in {<<>>, <<3>>} THEN <<>> ELSE <<9>>]>> :
        key \in WriterKeys}

\* the rows passed to WriteRow by any caller: those, a row with a key of
\* math.MaxUint16 + 1 bytes that sorts after the keys of WriterKeys, and a
\* row with a value of math.MaxUint32 + 1 bytes
WriterRows ==
    SegmentRows
      \cup {<<[i \in 1..(MaxUint16 + 1) |-> 4], [pages |-> 0, bytes |-> <<>>]>>,
            <<(<<3>>), [pages |-> MaxUint16 + 1, bytes |-> <<>>]>>}

\* SegmentWriterOptions: no compression, zstd, lz4 or both asked for; with
\* and without a bloom filter; a block flushed at every row or at every
\* other row
WriterOptions ==
    [ZSTDCompressionLevel : {0, 1}, LZ4Compression : BOOLEAN,
     BloomFilter : {[nil |-> TRUE], [nil |-> FALSE, bits |-> 0]},
     DataBlockThresholdBytes : {1, SmallThreshold},
     DataBlockSize : {SmallBlockSize}]

\* what is kept of a call that took the writer from s to t and returned err:
\* the call and its result, what the writer was before, whether the call
\* left the struct and the sink as they were, and how many bytes it wrote to
\* the sink
WriterCall(op, s, t, err) ==
    [op |-> op, err |-> err,
     closed |-> s.closed, failed |-> s.failed, rows |-> s.rows,
     untouched |-> [t EXCEPT !.err = s.err, !.failed = s.failed] = s,
     sunk |-> Len(t.externalWriter) - Len(s.externalWriter)]

NewWriter(opts) ==
    /\ ~writer.made
    /\ writer' = NewSegmentWriter(opts)
    /\ UNCHANGED <<written, last, readerVars, iterVars>>

\* rows arrive in strictly ascending key order
WriteRow(key, val) ==
    /\ writer.made
    /\ writer.rows < MaxRows
    /\ writer.rows = 0 \/ BytesLess(writer.lastKey, key)
    /\ LET w == SegmentWriter_WriteRow(writer, key, val)
       IN /\ writer' = [w EXCEPT !.failed = @ \/ w.err # "nil"]
          /\ last' = WriterCall("SegmentWriter.WriteRow", writer, w, w.err)
                       @@ [keyLen |-> Len(key), valPages |-> val.pages,
                           valLen |-> Len(val.bytes)]
    /\ UNCHANGED <<written, readerVars, iterVars>>

CloseWriter ==
    /\ writer.made /\ writer.closes < MaxCloses
    /\ LET c == SegmentWriter_Close(writer)
       IN /\ writer' = [c.s EXCEPT !.failed = @ \/ c.err # "nil"]
          /\ written' = [state |-> IF c.err = "nil" THEN "closed" ELSE "failed",
                         n |-> c.n, meta |-> c.meta, err |-> c.err]
          /\ last' = WriterCall("SegmentWriter.Close", writer, c.s, c.err)
    /\ UNCHANGED <<readerVars, iterVars>>

\* a SegmentReader over the bytes the sink received, constructed with the
\* file length Close returned
CallFetchAndLoadMetadata ==
    /\ written.state = "closed"
    /\ last' = [op |-> "SegmentReader.FetchAndLoadMetadata",
                defect |-> "asWritten",
                res |-> FetchAndLoadMetadata(writer.externalWriter, written.n)]
    /\ UNCHANGED <<writer, written, readerVars, iterVars>>

\* BytesToMetadata on the meta bytes Close returned
CallBytesToMetadata ==
    /\ written.state = "closed"
    /\ last' = [op |-> "SegmentReader.BytesToMetadata",
                res |-> BytesToMetadata(written.meta)]
    /\ UNCHANGED <<writer, written, readerVars, iterVars>>

\* a segment file as a source holds it: the data blocks, the meta block, and
\* the trailer of the offset where the meta block begins, the hash of the
\* meta block and the version byte; with a defect, the version is not 1, or
\* the trailer's hash or a byte of the meta block is changed, or the meta
\* block (hashed as it is) has no block index entries
SegmentFile(data, meta, index, defect) ==
    LET metaBlock ==
            IF defect = "noEntries"
            THEN SubSeq(meta, 1, Len(meta) - Len(index) - 8) \o LittleEndian(0, 8)
            ELSE IF defect = "metaByte"
            THEN [meta EXCEPT ![Len(meta)] = (@ + 1) % 256]
            ELSE meta
        hash == IF defect = "hash" THEN (Sum64(meta) + 1) % 65521
                ELSE IF defect = "metaByte" THEN Sum64(meta)
                ELSE Sum64(metaBlock)
    IN data \o metaBlock \o LittleEndian(Len(data), 8) \o LittleEndian(hash, 8)
         \o <<IF defect = "version" THEN 2 ELSE 1>>

\* FetchAndLoadMetadata by a SegmentReader over a segment file with the data
\* and meta block of the segment just closed, constructed with the file's
\* length
CallFetchFrom(defect) ==
    /\ written.state = "closed"
    /\ LET data == SubSeq(writer.externalWriter, 1,
                          Len(writer.externalWriter)
                            - writer.closes * (Len(written.meta) + 17))
           file == SegmentFile(data, written.meta,
                               IndexBytes(writer.blockIndex, 1), defect)
       IN last' = [op |-> "SegmentReader.FetchAndLoadMetadata",
                   defect |-> defect,
                   res |-> FetchAndLoadMetadata(file, Len(file))]
    /\ UNCHANGED <<writer, written, readerVars, iterVars>>

\* a segment is written and closed by a caller that keeps to the contract (it
\* discards the writer after Close and after an error), then read back
WriterNext ==
    \/ \E opts \in WriterOptions : NewWriter(opts)
    \/ \E row \in SegmentRows :
          writer.made /\ ~writer.closed /\ ~writer.failed /\ WriteRow(row[1], row[2])
    \/ writer.made /\ ~writer.closed /\ ~writer.failed /\ CloseWriter
    \/ CallFetchAndLoadMetadata
    \/ CallBytesToMetadata
    \/ \E defect \in {"none", "version", "hash", "metaByte", "noEntries"} :
          CallFetchFrom(defect)

WriterSpec == Init /\ [][WriterNext]_vars

\* any calls on a SegmentWriter, in any order
WriterUseNext ==
    \/ \E opts \in WriterOptions : NewWriter(opts)
    \/ \E row \in WriterRows : WriteRow(row[1], row[2])
    \/ CloseWriter

WriterUseSpec == Init /\ [][WriterUseNext]_vars

----------------------------------------------------------------------------
(* The merged view the reads are specified against                         *)

Range(t) == {t[i] : i \in 1..Len(t)}

Live == Range(segmentIDTree)

\* both indexes hold the same records, each with the key range of its file
WellFormed ==
    /\ Range(blockRangeTree) = Live
    /\ \A r \in Live : r = FileRecord(r.ID)

HasKey(id, k) == \E i \in 1..Len(FileRows(id)) : FileRows(id)[i].Key = k

\* the value segment id holds for k, as a reader decodes it
StoredValue(id, k) ==
    LET rows == FileRows(id)
    IN Bytes(rows[CHOOSE i \in 1..Len(rows) : rows[i].Key = k].Value.b)

Holders(k) == {r \in Live : HasKey(r.ID, k)}

\* precedence: level ascending, then ID descending
Precedes(a, b) == a.Level < b.Level \/ (a.Level = b.Level /\ a.ID > b.ID)

Winner(k) == CHOOSE r \in Holders(k) : \A o \in Holders(k) \ {r} : Precedes(r, o)

Masked(k) ==
    /\ Holders(k) # {}
    /\ Winner(k).Level = 0
    /\ IsEmptyBytes(StoredValue(Winner(k).ID, k))

Visible(k) == Holders(k) # {} /\ ~Masked(k)

VisibleValue(k) == StoredValue(Winner(k).ID, k)

AllKeys == UNION {{FileRows(id)[i].Key : i \in 1..Len(FileRows(id))} : id \in SegmentIDs}

\* the visible keys of [start, end) in ascending order, with their values
RECURSIVE AscendingView(_, _)
AscendingView(start, end) ==
    LET ks == {k \in AllKeys : start <= k /\ k < end /\ Visible(k)}
    IN IF ks = {} THEN <<>>
       ELSE LET k == CHOOSE x \in ks : \A y \in ks : x <= y
            IN <<KVPair(k, VisibleValue(k))>> \o AscendingView(k + 1, end)

NoTombstoneLive == \A r \in Live : \A i \in 1..Len(FileRows(r.ID)) :
                        ~IsEmptyBytes(FileRows(r.ID)[i].Value)

IsGetRow == last.op = "GetRow"
IsGetRange == last.op = "GetRange"

----------------------------------------------------------------------------
(* What a segment file holds, for the claims about one segment              *)

\* the records of segment id in the order of direction
InDirection(id, direction) ==
    IF direction = DirectionDescending THEN Reverse(Decoded(id)) ELSE Decoded(id)

\* the records at or past key in the order of direction
FromKey(id, direction, key) ==
    SelectSeq(InDirection(id, direction),
              LAMBDA p : IF direction = DirectionDescending
                         THEN p.Key <= key ELSE p.Key >= key)

\* the iterator was constructed or sought and its reader not closed since
Positioned(from) == rowIter # NoIter /\ since.from = from /\ since.closedAt = 0

----------------------------------------------------------------------------
(* Claims                                                                  *)

\* C1: over the live segments, GetRow(k) returns the value of the segment
\* that holds k and precedes every other holder (level ascending, then ID
\* descending), when that copy is not an L0 tombstone.
C1_GetRowReturnsWinner ==
    (IsGetRow /\ WellFormed /\ Visible(last.key))
        => (last.res.err = "nil" /\ last.res.value = VisibleValue(last.key))

\* C2: when the holder of k that precedes the others is an L0 segment with an
\* empty value for k, GetRow(k) returns NoRows and no other segment's value.
C2_GetRowTombstoneMasks ==
    (IsGetRow /\ WellFormed /\ Masked(last.key)) => last.res.err = "NoRows"

\* C3: GetRange returns no key whose winning copy is an L0 record with an
\* empty value, as a reader decodes it from the segment file.
C3_GetRangeSkipsTombstones ==
    (IsGetRange /\ WellFormed)
        => \A i \in 1..Len(last.res.rows) : ~Masked(last.res.rows[i].Key)

\* C4: an ascending GetRange(start, end, limit) returns the first
\* min(limit, n) entries of the merged view of [start, end).  Stated here for
\* limit >= 1 over live segments that hold no tombstone.
C4_AscendingRangeIsMergedView ==
    (IsGetRange /\ WellFormed /\ NoTombstoneLive /\ last.start < last.end
       /\ last.limit >= 1 /\ last.direction = DirectionAscending)
        => LET view == AscendingView(last.start, last.end)
           IN /\ last.res.err = "nil"
              /\ last.res.rows = SubSeq(view, 1, Min2(last.limit, Len(view)))

\* C5: the keys of a GetRange result are strictly increasing for an ascending
\* scan and strictly decreasing for a descending one, so no key occurs twice.
C5_RangeKeysStrictlyMonotonic ==
    IsGetRange =>
        \A i \in 1..(Len(last.res.rows) - 1) :
            IF last.direction = DirectionAscending
            THEN last.res.rows[i].Key < last.res.rows[i + 1].Key
            ELSE last.res.rows[i].Key > last.res.rows[i + 1].Key

\* a descending scan returned three or more rows merged from more than one
\* segment
C5_Witness ==
    /\ IsGetRange /\ last.direction = DirectionDescending
    /\ Len(last.res.rows) >= 3 /\ Len(last.res.opened) >= 2

\* C6 as stated: a descending GetRange covers [start, end): end is excluded
\* and start is not.
C6_DescendingCoversStartToEndExclusive ==
    (IsGetRange /\ last.direction = DirectionDescending)
        => \A i \in 1..Len(last.res.rows) :
              last.start <= last.res.rows[i].Key /\ last.res.rows[i].Key < last.end

\* C6 amended: every row of a descending GetRange has start < key <= end: the
\* scan never returns start and can return end itself.
C6_DescendingRowsWithinStartExclusiveEnd ==
    (IsGetRange /\ last.direction = DirectionDescending)
        => \A i \in 1..Len(last.res.rows) :
              last.start < last.res.rows[i].Key /\ last.res.rows[i].Key <= last.end

\* a descending scan over a segment that holds both bounds returned end first
\* and stopped before start
C6_Witness ==
    /\ IsGetRange /\ last.direction = DirectionDescending /\ WellFormed
    /\ \E r \in Live : HasKey(r.ID, last.start) /\ HasKey(r.ID, last.end)
    /\ Len(last.res.rows) >= 2
    /\ last.res.rows[1].Key = last.end
    /\ last.res.rows[Len(last.res.rows)].Key > last.start

\* C7: GetRange returns at most limit rows, and with limit = 0 it returns an
\* empty result without error.
C7_RangeRespectsLimit ==
    (IsGetRange /\ last.start < last.end)
        => /\ Len(last.res.rows) <= last.limit
           /\ last.limit = 0 => (last.res.err = "nil" /\ last.res.rows = <<>>)

\* C8: GetRange with start >= end fails with InvalidRange, in both
\* directions, before the index is read and before any reader is opened.
C8_InvalidRangeRejectedFirst ==
    (IsGetRange /\ last.start >= last.end)
        => /\ last.res.err = "InvalidRange"
           /\ last.res.rows = <<>>
           /\ ~last.res.indexRead
           /\ last.res.opened = <<>>

\* GetRange was called with start = end while a live segment holds that key
C8_Witness ==
    /\ IsGetRange /\ last.start = last.end
    /\ \E r \in Range(blockRangeTree) : HasKey(r.ID, last.start)
    /\ last.res.err = "InvalidRange"

\* C9: GetRow(k) agrees with the ascending scan of the smallest range that
\* contains k, limited to one row: the same value, or no row for k.
C9_GetRowAgreesWithRangeOfOne ==
    (IsGetRow /\ WellFormed /\ last.key \in 1..MaxKey)
        => LET scan == GetRange(blockRangeTree, last.key, last.key + 1, 1,
                                DirectionAscending)
           IN /\ last.res.err = "nil"
                    => scan.rows = <<KVPair(last.key, last.res.value)>>
              /\ last.res.err = "NoRows" => scan.rows = <<>>

\* C11: the candidates a read collects are those of the whole segment set
\* before the update in flight or of the whole set after it, never those of
\* a set to which only part of drop and add is applied.
C11_CandidatesSeeWholeUpdate ==
    read.pc = "collected"
        => \/ read.candidates = Candidates(read.call, read.before)
           \/ read.candidates = Candidates(read.call, read.after)

\* a read holds its candidates while an update has applied part of its lists:
\* the indexes are neither as the update found them nor as it will leave them
C11_Witness ==
    /\ read.pc = "collected"
    /\ update.pc = "run"
    /\ blockRangeTree # update.before.ranges
    /\ blockRangeTree # update.after.ranges
    /\ Candidates(read.call, blockRangeTree) # read.candidates

\* C12: a read uses the segment set the most recent completed UpdateSegments
\* had established when it collected its candidates, and the records it hands
\* to the reader factory come from those candidates whatever updates complete
\* afterwards.
C12_ReadKeepsItsSnapshot ==
    read.pc = "collected"
        => /\ read.candidates = Candidates(read.call, read.at)
           /\ \E n \in 0..Len(ToOpen(read.call, Candidates(read.call, read.at))) :
                 read.opened = SubSeq(ToOpen(read.call, Candidates(read.call, read.at)), 1, n)

\* a read opened a record after an update completed that changed what the
\* index would give it
C12_Witness ==
    /\ read.pc = "collected"
    /\ read.opened # <<>>
    /\ update = IdleUpdate
    /\ established.ranges # read.at
    /\ Candidates(read.call, established.ranges) # read.candidates
    /\ \E i \in 1..Len(read.opened) :
          \A j \in 1..Len(established.ranges) : established.ranges[j].ID # read.opened[i]

\* C13: a read hands the reader factory only records whose ID is live: an ID
\* leaves the ID index exactly when a drop names it, so no read opens a
\* segment whose ID was dropped and not added again.
C13_DroppedIDNotOpened ==
    (IsGetRow \/ IsGetRange)
        => \A i \in 1..Len(last.res.opened) :
              \E j \in 1..Len(segmentIDTree) : segmentIDTree[j].ID = last.res.opened[i]

\* C14: a fresh RowIter returns the records of its segment in write order
\* when ascending, in reverse order when descending, and then EOF.
C14_FreshIterReturnsAllRows ==
    Positioned("new")
        => \A i \in 1..Len(since.nexts) :
              LET rows == InDirection(rowIter.s, rowIter.direction)
              IN /\ i <= Len(rows) => since.nexts[i] = [pair |-> rows[i], err |-> "nil"]
                 /\ i = Len(rows) + 1 => since.nexts[i].err = "EOF"

\* C15: after Seek(k) for a key k that is no sentinel, the next Next returns
\* the first record at or past k in the iterator's direction, or EOF when
\* there is none.
C15_SeekThenNextReturnsFirstAtOrPast ==
    (Positioned("seek") /\ since.key \notin {UnboundStart, UnboundEnd}
       /\ since.nexts # <<>>)
        => LET rows == FromKey(rowIter.s, rowIter.direction, since.key)
           IN /\ since.err = "nil"
              /\ IF rows = <<>> THEN since.nexts[1].err = "EOF"
                 ELSE since.nexts[1] = [pair |-> rows[1], err |-> "nil"]

\* the sentinel seeks after which Next is to return EOF
SeeksToTheEnd ==
    \/ rowIter.direction = DirectionAscending /\ since.key = UnboundEnd
    \/ rowIter.direction = DirectionDescending /\ since.key = UnboundStart

\* the sentinel seeks after which Next is to return the first record in the
\* iterator's direction
SeeksToTheStart ==
    \/ rowIter.direction = DirectionAscending /\ since.key = UnboundStart
    \/ rowIter.direction = DirectionDescending /\ since.key = UnboundEnd

\* C16: after Seek(UnboundEnd) ascending or Seek(UnboundStart) descending
\* every Next returns EOF; after Seek(UnboundStart) ascending the next Next
\* returns the first record, after Seek(UnboundEnd) descending the last one.
C16_SentinelSeeks ==
    Positioned("seek")
        => /\ SeeksToTheEnd =>
                /\ since.err = "nil"
                /\ \A i \in 1..Len(since.nexts) : since.nexts[i].err = "EOF"
           /\ (SeeksToTheStart /\ since.nexts # <<>>) =>
                /\ since.err = "nil"
                /\ since.nexts[1] = [pair |-> InDirection(rowIter.s, rowIter.direction)[1],
                                     err |-> "nil"]

\* C17: once the segment reader behind a RowIter is closed, every Next fails
\* with Closed and returns no record.
C17_NextAfterCloseFails ==
    (rowIter # NoIter /\ since.from # "none" /\ since.closedAt # 0)
        => \A i \in 1..Len(since.nexts) :
              i >= since.closedAt
                  => since.nexts[i] = [pair |-> ZeroKVPair, err |-> "Closed"]

\* Next failed with Closed while rows of the current block were still
\* buffered in the iterator
C17_Witness ==
    /\ rowIter # NoIter /\ rowIter.closed
    /\ rowIter.blockRowIdx >= 0 /\ rowIter.blockRowIdx < Len(rowIter.blockRows)
    /\ since.from # "none" /\ since.closedAt >= 2
    /\ Len(since.nexts) >= since.closedAt
    /\ since.nexts[since.closedAt - 1].err = "nil"
    /\ since.nexts[Len(since.nexts)].err = "Closed"

\* the sum of the final lengths of the data blocks from the i-th on
RECURSIVE FinalLengths(_, _)
FinalLengths(blockIndex, i) ==
    IF i > Len(blockIndex) THEN 0
    ELSE blockIndex[i].finalBytes + FinalLengths(blockIndex, i + 1)

\* the meta_block_offset in the trailer of the file the sink received
TrailerOffset == Uint(SubSeq(writer.externalWriter, Len(writer.externalWriter) - 16,
                             Len(writer.externalWriter) - 9))

\* C19: after a successful Close the meta_block_offset of the trailer is the
\* offset where the meta block begins, the sum of the final lengths of the
\* data blocks, and FetchAndLoadMetadata on the written bytes succeeds with
\* the metadata BytesToMetadata makes of the meta bytes Close returned.
C19_TrailerPointsAtMetaBlock ==
    (written.state = "closed" /\ writer.closes = 1)
        => /\ TrailerOffset = FinalLengths(writer.blockIndex, 1)
           /\ (last.op = "SegmentReader.FetchAndLoadMetadata"
                  /\ last.defect = "asWritten")
                => /\ last.res.err = "nil"
                   /\ last.res.metadata = BytesToMetadata(written.meta).metadata

\* C20: parsing the meta bytes Close returned gives back the writer's
\* metadata field for field: first key, last key, bloom presence,
\* compression tag, number of block stats, every field of every block stat;
\* and the parser consumes exactly all meta bytes.
C20_MetaBlockRoundTrip ==
    (last.op = "SegmentReader.BytesToMetadata")
        => /\ last.res.err = "nil"
           /\ last.res.read = Len(written.meta)
           /\ LET m == last.res.metadata
              IN /\ m.FirstKey = writer.blockIndex[1].firstKey
                 /\ m.LastKey = writer.lastKey
                 /\ m.BloomFilter.nil = writer.options.BloomFilter.nil
                 /\ m.ZSTDCompression = useZSTD(writer.options)
                 /\ m.LZ4Compression = useLZ4(writer.options)
                 /\ Len(m.BlockIndex) = Len(writer.blockIndex)
                 /\ \A i \in 1..Len(writer.blockIndex) :
                       /\ m.BlockIndex[i].FirstKey = writer.blockIndex[i].firstKey
                       /\ m.BlockIndex[i].Offset = writer.blockIndex[i].offset
                       /\ m.BlockIndex[i].BlockSize = writer.blockIndex[i].finalBytes
                       /\ m.BlockIndex[i].OriginalSize = writer.blockIndex[i].rawBytes
                       /\ m.BlockIndex[i].CompressedSize = writer.blockIndex[i].compressedBytes
                       /\ m.BlockIndex[i].Hash = writer.blockIndex[i].hash

\* the meta bytes of a segment of several blocks, written with a bloom
\* filter and keys of different lengths, have been parsed
C20_Witness ==
    /\ last.op = "SegmentReader.BytesToMetadata" /\ last.res.err = "nil"
    /\ Len(writer.blockIndex) >= 2
    /\ ~writer.options.BloomFilter.nil
    /\ Len(writer.lastKey) # Len(writer.blockIndex[1].firstKey)

\* the blocks of segment id whose first key is at most key
BlocksAtOrBefore(id, key) ==
    {i \in 1..Len(Store[id]) : Store[id][i][1].Key <= key}

\* every block of segment id can be read
Readable(id) == \A i \in 1..Len(BlockIndex(id)) : ~ReadFails(id, BlockIndex(id)[i])

StrictlyOrdered(firstKeys) ==
    \A i, j \in 1..Len(firstKeys) : i < j => BytesLess(firstKeys[i], firstKeys[j])

\* C21: after rows with strictly ascending keys were written and the writer
\* closed, the segment's first key is the first key written, its last key
\* the last key written, the block stats are strictly ordered by first key
\* and the first block stat's first key is the segment's first key; in the
\* writer's block index as in the metadata read from the meta bytes.
C21_MetadataKeysAreTheKeysWritten ==
    (written.state = "closed")
        => /\ writer.blockIndex[1].firstKey = writer.keys[1]
           /\ writer.lastKey = writer.keys[Len(writer.keys)]
           /\ StrictlyOrdered([i \in 1..Len(writer.blockIndex)
                                 |-> writer.blockIndex[i].firstKey])
           /\ (last.op = "SegmentReader.BytesToMetadata")
                => LET m == last.res.metadata
                   IN /\ m.FirstKey = writer.keys[1]
                      /\ m.LastKey = writer.keys[Len(writer.keys)]
                      /\ Len(m.BlockIndex) = Len(writer.blockIndex)
                      /\ StrictlyOrdered([i \in 1..Len(m.BlockIndex)
                                            |-> m.BlockIndex[i].FirstKey])
                      /\ m.BlockIndex[1].FirstKey = m.FirstKey

\* the metadata of a segment of three rows in two blocks has been read
C21_Witness ==
    /\ written.state = "closed"
    /\ last.op = "SegmentReader.BytesToMetadata" /\ last.res.err = "nil"
    /\ Len(writer.keys) = 3
    /\ Len(writer.blockIndex) = 2
    /\ writer.keys[1] # writer.keys[3]

\* C22: after Close the first block stat has offset 0, every later stat's
\* offset is the previous stat's offset plus its final length, and the file
\* length Close returned is the number of bytes the sink received, which is
\* the sum of the final lengths plus the length of the meta block plus 17;
\* the meta block lies in the sink right after the data blocks.
C22_OffsetsAndLengthsGiveTheLayout ==
    (written.state = "closed")
        => /\ writer.blockIndex[1].offset = 0
           /\ \A i \in 2..Len(writer.blockIndex) :
                 writer.blockIndex[i].offset
                   = writer.blockIndex[i - 1].offset + writer.blockIndex[i - 1].finalBytes
           /\ written.n = Len(writer.externalWriter)
           /\ written.n = FinalLengths(writer.blockIndex, 1) + Len(written.meta) + 17
           /\ SubSeq(writer.externalWriter, FinalLengths(writer.blockIndex, 1) + 1,
                     FinalLengths(writer.blockIndex, 1) + Len(written.meta))
                = written.meta

\* a segment of three rows in two blocks has been closed, the second block
\* flushed by Close
C22_Witness ==
    /\ written.state = "closed"
    /\ last.op = "SegmentWriter.Close" /\ last.err = "nil"
    /\ Len(writer.keys) = 3
    /\ Len(writer.blockIndex) = 2
    /\ writer.blockIndex[2].offset > 0
    /\ last.sunk > Len(written.meta) + 17

\* the length of the payload of a flushed block: the compressed length when
\* the segment is compressed, else the raw length
PayloadLength(options, stat) ==
    IF useZSTD(options) \/ useLZ4(options) THEN stat.compressedBytes ELSE stat.rawBytes

\* C23: every flushed data block has a final length that is a positive
\* multiple of DataBlockSize and the smallest such multiple that is at least
\* the length of its payload, and the bytes after the payload are zero.
C23_BlocksPaddedToTheNextMultiple ==
    writer.made
        => \A i \in 1..Len(writer.blockIndex) :
              LET stat == writer.blockIndex[i]
                  payload == PayloadLength(writer.options, stat)
              IN /\ stat.finalBytes > 0
                 /\ stat.finalBytes % writer.options.DataBlockSize = 0
                 /\ stat.finalBytes >= payload
                 /\ stat.finalBytes - writer.options.DataBlockSize < payload
                 /\ \A at \in (stat.offset + payload + 1)..(stat.offset + stat.finalBytes) :
                       writer.externalWriter[at] = 0

\* C24: FetchAndLoadMetadata on a segment file returns an error that names
\* the defect and no metadata: UnknownSegmentVersion when the version byte
\* of the trailer is not 1, MismatchedMetaBlockHash when the hash of the
\* meta block is not the trailer's, InvalidMetaBlock when the meta block has
\* no block index entries.  The same file without defect is loaded.
C24_DefectsAreReportedAsErrors ==
    (last.op = "SegmentReader.FetchAndLoadMetadata" /\ last.defect # "asWritten")
        => /\ last.defect = "version"
                => last.res.err = "UnknownSegmentVersion" /\ last.res.metadata.nil
           /\ last.defect \in {"hash", "metaByte"}
                => last.res.err = "MismatchedMetaBlockHash" /\ last.res.metadata.nil
           /\ last.defect = "noEntries"
                => last.res.err = "InvalidMetaBlock" /\ last.res.metadata.nil
           /\ last.defect = "none"
                => /\ last.res.err = "nil"
                   /\ last.res.metadata = BytesToMetadata(written.meta).metadata

\* the file of a segment of two blocks, its meta block without block index
\* entries and hashed as it is, was refused
C24_Witness ==
    /\ last.op = "SegmentReader.FetchAndLoadMetadata"
    /\ last.defect = "noEntries"
    /\ last.res.err = "InvalidMetaBlock"
    /\ Len(writer.blockIndex) = 2

\* C25: WriteRow with an empty key fails with InvalidKey and adds nothing to
\* the current block, the block index, the bloom filter or the sink.
C25_EmptyKeyIsRejected ==
    (last.op = "SegmentWriter.WriteRow" /\ last.keyLen = 0)
        => /\ last.err = "InvalidKey"
           /\ last.untouched
           /\ last.sunk = 0

\* a key of exactly math.MaxUint16 bytes and a value of exactly
\* math.MaxUint32 bytes, MaxUint16 pages and MaxUint16 bytes more
AtLimitKey == [i \in 1..MaxUint16 |-> 4]
AtLimitValue == [pages |-> MaxUint16, bytes |-> [i \in 1..MaxUint16 |-> 0]]

\* C26: WriteRow rejects a key longer than 65,535 bytes with KeyTooLarge and
\* a value longer than 4,294,967,295 bytes with ValueTooLarge, and leaves
\* block buffer, last key and sink as they were; its tests let a key and a
\* value of exactly those lengths pass, and a writer that is not closed
\* accepts every row with a key of 1 to 65,535 bytes and a value within the
\* limit.
C26_OversizedRowsAreRejected ==
    /\ (last.op = "SegmentWriter.WriteRow" /\ last.keyLen > MaxUint16)
          => last.err = "KeyTooLarge" /\ last.untouched /\ last.sunk = 0
    /\ (last.op = "SegmentWriter.WriteRow" /\ last.keyLen <= MaxUint16
          /\ last.valPages > MaxUint16)
          => last.err = "ValueTooLarge" /\ last.untouched /\ last.sunk = 0
    /\ (last.op = "SegmentWriter.WriteRow" /\ last.keyLen \in 1..MaxUint16
          /\ last.valPages = 0 /\ ~last.closed)
          => last.err = "nil" /\ ~last.untouched
    /\ writer.made
          => WriteRowError(writer, AtLimitKey, AtLimitValue)
               = IF writer.closed THEN "WriterClosed" ELSE "nil"

\* a key of 65,536 bytes was refused by a writer that holds a row in its
\* open block
C26_Witness ==
    /\ last.op = "SegmentWriter.WriteRow"
    /\ last.keyLen = MaxUint16 + 1
    /\ last.err = "KeyTooLarge"
    /\ last.rows = 1 /\ ~last.closed
    /\ writer.blockWriter # "nil"

\* C27 as claimed: after Close has succeeded every WriteRow call fails with
\* WriterClosed and writes no byte to the sink.
C27_EveryWriteAfterCloseIsWriterClosed ==
    (last.op = "SegmentWriter.WriteRow" /\ last.closed)
        => last.err = "WriterClosed" /\ last.sunk = 0

\* C27 as amended: after Close has succeeded every WriteRow call fails,
\* writes no byte to the sink and leaves the writer as it was; the error is
\* WriterClosed when key and value are within the size limits, KeyTooLarge
\* for a key that is too long, else ValueTooLarge for a value that is.
C27_NoWriteAfterClose ==
    (last.op = "SegmentWriter.WriteRow" /\ last.closed)
        => /\ last.err # "nil" /\ last.sunk = 0 /\ last.untouched
           /\ last.err = IF last.keyLen > MaxUint16 THEN "KeyTooLarge"
                         ELSE IF last.valPages > MaxUint16 THEN "ValueTooLarge"
                         ELSE "WriterClosed"

\* a row within the limits was refused by a closed writer
C27_Witness ==
    /\ last.op = "SegmentWriter.WriteRow" /\ last.closed
    /\ last.keyLen = 1 /\ last.valPages = 0
    /\ last.err = "WriterClosed"
    /\ writer.closes = 1

C29_ErrorsInvalidateTheWriter ==
    /\ (last.op \in {"SegmentWriter.WriteRow", "SegmentWriter.Close"} /\ last.failed)
           => last.err # "nil"
    /\ (last.op = "SegmentWriter.Close" /\ last.failed)
           => written.state # "closed" /\ written.meta = <<>>

\* the keys of the segments a GetRange call opened that lie within its range
\* and, in the order of its direction, past the last row it returned
LeftBehind(call) ==
    {k \in UNION {{Decoded(call.res.opened[i])[j].Key :
                      j \in 1..Len(Decoded(call.res.opened[i]))} :
                  i \in 1..Len(call.res.opened)} :
        /\ ~OutOfRange(k, call.start, call.end, call.direction)
        /\ IF call.direction = DirectionDescending
           THEN k <= call.end ELSE k >= call.start
        /\ \/ call.res.rows = <<>>
           \/ IF call.direction = DirectionDescending
              THEN k < call.res.rows[Len(call.res.rows)].Key
              ELSE k > call.res.rows[Len(call.res.rows)].Key}

\* no segment the call opened holds a record with an empty value
NoTombstoneOpened(call) ==
    \A i \in 1..Len(call.res.opened) :
        \A j \in 1..Len(Decoded(call.res.opened[i])) :
            ~IsEmptyBytes(Decoded(call.res.opened[i])[j].Value)

\* C30: the merge loop of GetRange ends only at limit rows, at a front key
\* beyond the bound of the range, or with every cursor exhausted: a scan
\* that returned fewer than limit rows left no key of its range, past the
\* last row returned, in a segment it had opened.  Stated over opened
\* segments without empty values, where no cursor is rolled past a tombstone.
C30_ScanEndsOnlyAtLimitBoundOrExhaustion ==
    (IsGetRange /\ last.res.err = "nil" /\ NoTombstoneOpened(last)
       /\ Len(last.res.rows) < last.limit)
        => LeftBehind(last) = {}

\* C10: the two indexes hold the same segment IDs, each ID once.
C10_IndexesHoldSameIDs ==
    /\ {segmentIDTree[i].ID : i \in 1..Len(segmentIDTree)}
         = {blockRangeTree[i].ID : i \in 1..Len(blockRangeTree)}
    /\ \A i, j \in 1..Len(blockRangeTree) :
          blockRangeTree[i].ID = blockRangeTree[j].ID => i = j
    /\ \A i, j \in 1..Len(segmentIDTree) :
          segmentIDTree[i].ID = segmentIDTree[j].ID => i = j

\* C31: candidate selection is complete.  Over well-formed indexes the
\* candidates of GetRow(key) include every live segment with
\* first key <= key <= last key, and the candidates of GetRange(start, end)
\* every live segment whose key range is not wholly before start or wholly
\* after end.
C31_CandidatesAreComplete ==
    /\ (IsGetRow /\ WellFormed)
          => \A r \in Live :
                (r.FirstKey <= last.key /\ last.key <= r.LastKey)
                    => r \in Range(last.res.candidates)
    /\ (IsGetRange /\ WellFormed /\ last.res.indexRead)
          => \A r \in Live :
                ~(last.start > r.LastKey \/ last.end < r.FirstKey)
                    => r \in Range(last.res.candidates)

----------------------------------------------------------------------------
(* The reader over segments whose source fails: segment 7, whose second    *)
(* block cannot be read, and segment 8, whose file the store does not hold *)

\* the record of segment 8: the factory returns an error for it
MissingRecord == SegmentRecord(8, 0, 1, 4)

FaultRecords == {FileRecord(2), FileRecord(7), MissingRecord}

FaultNext ==
    \/ \E add \in SeqsUpTo(FaultRecords, MaxBatch), drop \in SeqsUpTo(FaultRecords, MaxBatch) :
          UpdateSegments(add, drop)
    \/ \E key \in ProbeKeys : CallGetRow(key)
    \/ \E start \in ProbeKeys, end \in ProbeKeys, limit \in 0..MaxLimit,
          direction \in Directions :
          CallGetRange(start, end, limit, direction)
    \/ Return

FaultSpec == Init /\ [][FaultNext]_vars

\* the key a GetRange call seeks its iterators to
StartRange(call) ==
    IF call.direction = DirectionDescending THEN call.end ELSE call.start

\* the block read of Seek(key) on a fresh iterator of segment id fails
SeekReadFails(id, direction, key) ==
    LET found == SeekStat(id, key)
    IN IF found = <<>>
       THEN RowIter_Seek(NewRowIter(id, direction), key).err # "nil"
       ELSE ReadFails(id, SeekPosition(NewRowIter(id, direction), key, found).stat)

\* C33: a failure while serving a read aborts it.  GetRange returns no rows
\* with an error, and returns an error when, for a segment it handed to the
\* reader factory, the factory, Seek or the block read of Seek failed; GetRow
\* returns an error other than NoRows when the factory or the block read
\* failed for a segment it opened.
C33_ReadFailuresAbortTheRead ==
    /\ (IsGetRange /\ last.res.err # "nil") => last.res.rows = <<>>
    /\ IsGetRange =>
          \A i \in 1..Len(last.res.opened) :
              (\/ FactoryFails(last.res.opened[i])
               \/ /\ ~FactoryFails(last.res.opened[i])
                  /\ \/ RowIter_Seek(NewRowIter(last.res.opened[i], last.direction),
                                     StartRange(last)).err # "nil"
                     \/ SeekReadFails(last.res.opened[i], last.direction,
                                      StartRange(last)))
                  => last.res.err # "nil"
    /\ IsGetRow =>
          \A i \in 1..Len(last.res.opened) :
              (\/ FactoryFails(last.res.opened[i])
               \/ /\ ~FactoryFails(last.res.opened[i])
                  /\ SegmentReader_GetRow(last.res.opened[i], last.key).err = "Read")
                  => last.res.err \notin {"nil", "NoRows"}

\* C34: every segment reader the factory returned during a GetRow or
\* GetRange call is closed when the call returns.
C34_ReadersClosedOnReturn ==
    (IsGetRow \/ IsGetRange)
        => \A i \in 1..Len(last.res.opened) :
              ~FactoryFails(last.res.opened[i])
                  => \E j \in 1..Len(last.res.closed) :
                        last.res.closed[j] = last.res.opened[i]

\* the records of segment id with start <= key < end in write order, no
\* bound above when end is UnboundEnd
InRange(id, start, end) ==
    SelectSeq(Decoded(id),
              LAMBDA p : start <= p.Key /\ (end = UnboundEnd \/ p.Key < end))

\* C36: SegmentReader.GetRange(start, end) returns every written record with
\* start <= key < end once and no other record, in ascending key order;
\* UnboundStart and UnboundEnd remove the respective bound.  Stated for the
\* calls whose block reads succeed.
C36_SegmentRangeReturnsTheRecordsInRange ==
    (last.op = "SegmentReader.GetRange" /\ last.id # 7)
        => /\ last.res.err = "nil"
           /\ last.res.rows = InRange(last.id, last.start, last.end)

\* C37 as claimed: once Next has returned EOF, every further Next before the
\* next Seek returns EOF and no record, and asks for no block.
C37_EOFIsSticky ==
    (rowIter # NoIter /\ since.from # "none")
        => \A i \in 1..Len(since.nexts) : \A j \in 1..Len(since.nexts) :
              (i < j /\ since.nexts[i].err = "EOF")
                  => /\ since.nexts[j] = [pair |-> ZeroKVPair, err |-> "EOF"]
                     /\ since.reads[j] = {}

\* C37 as amended: once Next has returned EOF, every further Next before the
\* next Seek and before the segment reader is closed returns EOF and no
\* record, and asks for no block.
C37_EOFIsStickyWhileOpen ==
    (rowIter # NoIter /\ since.from # "none")
        => \A i \in 1..Len(since.nexts) : \A j \in 1..Len(since.nexts) :
              (i < j /\ since.nexts[i].err = "EOF"
                 /\ (since.closedAt = 0 \/ j < since.closedAt))
                  => /\ since.nexts[j] = [pair |-> ZeroKVPair, err |-> "EOF"]
                     /\ since.reads[j] = {}

\* a descending iterator over a file of three blocks was sought to a key,
\* returned rows and then EOF three times
C37_Witness ==
    /\ rowIter # NoIter /\ since.from = "seek" /\ since.closedAt = 0
    /\ rowIter.direction = DirectionDescending
    /\ Len(Store[rowIter.s]) = 3
    /\ Len(since.nexts) >= 4
    /\ since.nexts[1].err = "nil"
    /\ \A j \in (Len(since.nexts) - 2)..Len(since.nexts) : since.nexts[j].err = "EOF"

\* C39: a Close call on a writer whose Close has already succeeded writes
\* nothing to the sink.
C39_SecondCloseLeavesTheSinkUnchanged ==
    (last.op = "SegmentWriter.Close" /\ last.closed) => last.sunk = 0

----------------------------------------------------------------------------
(* UpdateSegments call by call: lists of up to MaxBatch + 1 records, each   *)
(* call kept with the indexes it found                                      *)

\* segment 2 under two key ranges, and segment 3
UpdateRecords == {FileRecord(2), WiderRecord, FileRecord(3)}

CallUpdateSegments(add, drop) ==
    /\ last = NoCall
    /\ LET res == UpdateSegmentsResult(segmentIDTree, blockRangeTree, add, drop)
       IN /\ segmentIDTree' = res.ids
          /\ blockRangeTree' = res.ranges
          /\ established' = res
    /\ last' = [op |-> "UpdateSegments", add |-> add, drop |-> drop,
                before |-> [ids |-> segmentIDTree, ranges |-> blockRangeTree]]
    /\ UNCHANGED <<indexMu, update, read, iterVars, writerVars>>

UpdateNext ==
    \/ \E add \in SeqsUpTo(UpdateRecords, MaxBatch + 1),
          drop \in SeqsUpTo(UpdateRecords, MaxBatch + 1) :
          CallUpdateSegments(add, drop)
    \/ Return

UpdateSpec == Init /\ [][UpdateNext]_vars

IDsOf(t) == {t[i].ID : i \in 1..Len(t)}

\* the last record of list t with the ID of record x
LastWithID(t, x) ==
    t[CHOOSE i \in 1..Len(t) :
         t[i].ID = x.ID /\ \A j \in 1..Len(t) : t[j].ID = x.ID => j <= i]

\* C40: in one UpdateSegments(add, drop) call the drops are applied before
\* the adds.  An ID that is in drop and in add is live after the call: the ID
\* index holds the record added last for it, and the range index holds that
\* record too.  Drops of IDs that are not live change nothing: the call
\* leaves the indexes as the same call without those drops does.
C40_DropsBeforeAdds ==
    last.op = "UpdateSegments"
        => /\ \A a \in Range(last.add) :
                 a.ID \in IDsOf(last.drop)
                     => /\ LastWithID(last.add, a) \in Range(segmentIDTree)
                        /\ LastWithID(last.add, a) \in Range(blockRangeTree)
           /\ LET liveDrops == SelectSeq(last.drop,
                                         LAMBDA d : d.ID \in IDsOf(last.before.ids))
                  res == UpdateSegmentsResult(last.before.ids, last.before.ranges,
                                              last.add, liveDrops)
              IN segmentIDTree = res.ids /\ blockRangeTree = res.ranges
           /\ (last.add = <<>> /\ IDsOf(last.drop) \cap IDsOf(last.before.ids) = {})
                 => /\ segmentIDTree = last.before.ids
                    /\ blockRangeTree = last.before.ranges

\* segment 2 was live under the wider key range and segment 3 was not live;
\* a single call dropped both and added segment 2 under its own key range
C40_Witness ==
    /\ last.op = "UpdateSegments"
    /\ last.drop = <<FileRecord(3), WiderRecord>>
    /\ last.add = <<FileRecord(2)>>
    /\ last.before.ids = <<WiderRecord>>
    /\ FileRecord(2) \in Range(segmentIDTree)
    /\ FileRecord(2) \in Range(blockRangeTree)

----------------------------------------------------------------------------
(* snapshot_reader.Iter: the paging iterator Reader.RowIter returns, over  *)
(* indexes that no longer change once the iterator exists.  rowIter holds  *)
(* the Iter, since the results of the Next calls made on it and of the     *)
(* last Peek.                                                              *)

\* Reader.RowIter(start, direction, RowBufferSize(size))
Reader_RowIter(start, direction, size) ==
    [lastKey |-> start, direction |-> direction, rowBuffer |-> <<>>,
     bufferSize |-> size, done |-> FALSE]

\* the rows of a page that go into the buffer: the first row is left out
\* when its key is the last key of the page before
PageRows(rows, lastKey) ==
    IF rows[1].Key = lastKey THEN Tail(rows) ELSE rows

\* checkLoadBuffer once the buffer is filled: rowBuffer.Back() of a buffer
\* left empty is nil, and reading its Value panics
BufferFilled(i, buffer) ==
    IF buffer = <<>>
    THEN [iter |-> [i EXCEPT !.rowBuffer = <<>>], err |-> "panic"]
    ELSE [iter |-> [i EXCEPT !.rowBuffer = buffer,
                             !.lastKey = buffer[Len(buffer)].Key],
          err |-> "nil"]

\* checkLoadBuffer once GetRange returned rows
PageLoaded(i, rows) == BufferFilled(i, PageRows(rows, i.lastKey))

\* checkLoadBuffer once GetRange returned res
RangeLoaded(i, res) ==
    IF res.err = "panic" THEN [iter |-> i, err |-> "panic"]
    ELSE IF res.err # "nil" THEN [iter |-> i, err |-> "GetRange"]
    ELSE IF res.rows = <<>> THEN [iter |-> [i EXCEPT !.done = TRUE], err |-> "EOF"]
    ELSE PageLoaded(i, res.rows)

\* Iter.checkLoadBuffer: [iter, err]
checkLoadBuffer(i, ranges) ==
    IF i.rowBuffer # <<>> THEN [iter |-> i, err |-> "nil"]
    ELSE IF i.done THEN [iter |-> i, err |-> "EOF"]
    ELSE RangeLoaded(i, IF i.direction = DirectionDescending
                        THEN GetRange(ranges, UnboundStart, i.lastKey,
                                      i.bufferSize, i.direction)
                        ELSE GetRange(ranges, i.lastKey, UnboundEnd,
                                      i.bufferSize, i.direction))

\* Next or Peek once checkLoadBuffer returned loaded; Next pops the front row
FrontRow(loaded, pop) ==
    IF loaded.err # "nil"
    THEN [iter |-> loaded.iter, pair |-> ZeroKVPair, err |-> loaded.err]
    ELSE [iter |-> IF pop
                   THEN [loaded.iter EXCEPT !.rowBuffer = Tail(loaded.iter.rowBuffer)]
                   ELSE loaded.iter,
          pair |-> loaded.iter.rowBuffer[1], err |-> "nil"]

\* Iter.Next: [iter, pair, err]
Iter_Next(i, ranges) == FrontRow(checkLoadBuffer(i, ranges), TRUE)

\* Iter.Peek: [iter, pair, err]
Iter_Peek(i, ranges) == FrontRow(checkLoadBuffer(i, ranges), FALSE)

\* segments without tombstones: 1 (L1, keys 1..4), 2 and 3 (L0), 5 (L1)
SnapshotRecords == {FileRecord(1), FileRecord(2), FileRecord(3), FileRecord(5)}

NoPeek == [err |-> "none"]

\* a panic ends the program
Panicked ==
    \/ since.peek.err = "panic"
    \/ since.nexts # <<>> /\ since.nexts[Len(since.nexts)].err = "panic"

CallRowIter(start, direction, size) ==
    /\ rowIter = NoIter
    /\ last = NoCall
    /\ rowIter' = Reader_RowIter(start, direction, size)
    /\ since' = [from |-> "Reader.RowIter", start |-> start, direction |-> direction,
                 nexts |-> <<>>, peek |-> NoPeek]
    /\ UNCHANGED <<last, readerVars, writerVars>>

\* the caller of Next has its result n
NextReturned(n) ==
    /\ rowIter' = n.iter
    /\ since' = [since EXCEPT !.nexts = Append(since.nexts,
                                              [pair |-> n.pair, err |-> n.err]),
                              !.peek = NoPeek]

\* the caller of Peek has its result p
PeekReturned(p) ==
    /\ rowIter' = p.iter
    /\ since' = [since EXCEPT !.peek = [pair |-> p.pair, err |-> p.err]]

CallIterNext ==
    /\ rowIter # NoIter
    /\ ~Panicked
    /\ Len(since.nexts) < MaxNexts
    /\ NextReturned(Iter_Next(rowIter, blockRangeTree))
    /\ UNCHANGED <<last, readerVars, writerVars>>

CallIterPeek ==
    /\ rowIter # NoIter
    /\ ~Panicked
    /\ PeekReturned(Iter_Peek(rowIter, blockRangeTree))
    /\ UNCHANGED <<last, readerVars, writerVars>>

SnapshotNext ==
    \/ \E add \in SeqsUpTo(SnapshotRecords, MaxBatch),
          drop \in SeqsUpTo(SnapshotRecords, MaxBatch) :
          rowIter = NoIter /\ UpdateSegments(add, drop)
    \/ \E start \in ProbeKeys, direction \in Directions, size \in 1..MaxLimit :
          CallRowIter(start, direction, size)
    \/ CallIterNext
    \/ CallIterPeek

SnapshotSpec == Init /\ [][SnapshotNext]_vars

\* the live keys from start on in ascending order, with their values
ScanUp(start) == AscendingView(start, UnboundEnd + 2)

\* the live keys from start on in descending order, with their values
ScanDown(start) == Reverse(AscendingView(UnboundStart, start + 1))

\* the Next calls made so far returned the rows of scan in order, then io.EOF
NextsFollow(scan) ==
    \A n \in 1..Len(since.nexts) :
        IF n <= Len(scan)
        THEN since.nexts[n] = [pair |-> scan[n], err |-> "nil"]
        ELSE since.nexts[n].err = "EOF"

\* C38: over indexes that do not change, the Next calls on the Iter of
\* Reader.RowIter(start, direction) with a row buffer of size >= 1 return
\* each live key of the scan once, in direction order and beginning with
\* start when start is live, and io.EOF after them; Next and Peek return no
\* error but io.EOF.
C38_IterReturnsEachLiveKeyOnce ==
    (rowIter # NoIter /\ since.from = "Reader.RowIter")
        => /\ NextsFollow(IF since.direction = DirectionDescending
                          THEN ScanDown(since.start) ELSE ScanUp(since.start))
           /\ since.peek.err \in {"none", "nil", "EOF"}

----------------------------------------------------------------------------
(* The lock under fair scheduling.  A call to UpdateSegments is issued     *)
(* before indexMu.Lock is granted; sync.RWMutex grants no new RLock while  *)
(* a Lock call waits, and the Go scheduler lets a goroutine that can take  *)
(* a step take it eventually: fairness is asked of the steps of            *)
(* UpdateSegments and of the collection that holds the read lock.          *)

FairRecords == {FileRecord(1), FileRecord(2)}

FairReads ==
    {[op |-> "GetRow", key |-> 2],
     [op |-> "GetRange", start |-> 2, end |-> 4, limit |-> MaxLimit,
      direction |-> DirectionAscending]}

\* a goroutine calls UpdateSegments: it is at indexMu.Lock
UpdateIssue(add, drop) ==
    /\ update = IdleUpdate
    /\ update' = [pc |-> "waiting", add |-> add, drop |-> drop]
    /\ UNCHANGED <<segmentIDTree, blockRangeTree, last, indexMu, read, established, iterVars, writerVars>>

\* indexMu.Lock is granted
UpdateAcquire ==
    /\ update.pc = "waiting"
    /\ CanLock(indexMu)
    /\ indexMu' = [indexMu EXCEPT !.writer = TRUE]
    /\ update' = [pc |-> "run", add |-> update.add, drop |-> update.drop,
                  before |-> [ids |-> segmentIDTree, ranges |-> blockRangeTree],
                  after |-> UpdateSegmentsResult(segmentIDTree, blockRangeTree,
                                                 update.add, update.drop)]
    /\ UNCHANGED <<segmentIDTree, blockRangeTree, last, read, established, iterVars, writerVars>>

\* indexMu.RLock is granted: not while a Lock call waits
ReadLockBehind(call) ==
    /\ update.pc # "waiting"
    /\ ReadLock(call)

\* the read hands its next candidate to the reader factory and reads the
\* segment; no step of the scan touches indexMu
ScanOpen ==
    /\ read.pc = "collected"
    /\ Len(read.opened) < Len(read.candidates)
    /\ read' = [read EXCEPT !.opened = Append(read.opened,
                                              read.candidates[Len(read.opened) + 1])]
    /\ UNCHANGED <<segmentIDTree, blockRangeTree, last, indexMu, update, established, iterVars, writerVars>>

\* the read returns: with its result, or early with an error
ScanReturn ==
    /\ read.pc = "collected"
    /\ read' = IdleRead
    /\ UNCHANGED <<segmentIDTree, blockRangeTree, last, indexMu, update, established, iterVars, writerVars>>

FairNext ==
    \/ \E add \in SeqsUpTo(FairRecords, MaxBatch), drop \in SeqsUpTo(FairRecords, MaxBatch) :
          UpdateIssue(add, drop)
    \/ UpdateAcquire
    \/ UpdateDrop
    \/ UpdateAdd
    \/ UpdateUnlock
    \/ \E call \in FairReads : ReadLockBehind(call)
    \/ ReadCollect
    \/ ScanOpen
    \/ ScanReturn

FairSpec ==
    /\ Init
    /\ [][FairNext]_vars
    /\ WF_vars(UpdateAcquire)
    /\ WF_vars(UpdateDrop)
    /\ WF_vars(UpdateAdd)
    /\ WF_vars(UpdateUnlock)
    /\ WF_vars(ReadCollect)

\* the read lock is held only by a read that is collecting, the write lock
\* only by an update that is running, and by nothing else
LocksReleased ==
    /\ indexMu.readers = (IF read.pc = "locked" THEN 1 ELSE 0)
    /\ indexMu.writer = (update.pc = "run")

\* C35: GetRow and GetRange hold the read lock only while they collect their
\* candidates and have released it before they hand a record to the reader
\* factory; UpdateSegments releases the write lock when it returns; no lock
\* is held once the calls have returned.  Under fair scheduling a call to
\* UpdateSegments that is issued, also while a read is in progress,
\* completes.
C35_LocksReleasedAndUpdatesComplete ==
    /\ [](LocksReleased /\ (read.pc = "collected" => indexMu.readers = 0))
    /\ (update.pc = "waiting") ~> (update = IdleUpdate)

\* UpdateSegments waits for the lock while a read holds it, or while a read
\* that has collected its candidates is opening segments
C35_Witness ==
    /\ update.pc = "waiting"
    /\ \/ read.pc = "locked"
       \/ read.pc = "collected" /\ read.opened # <<>>

----------------------------------------------------------------------------
(* The merge loop of GetRange goroutine by goroutine.  read holds the      *)
(* locals of the call: the iterators and cursors, the rows taken, and the  *)
(* tasks of the errgroup that are in flight.  A task calls Next on the     *)
(* iterator of its index and then stores into the cursor of its index.     *)

\* segments whose keys tie, one of them with a block that cannot be read
MergeRecords == {FileRecord(1), FileRecord(3), FileRecord(4), FileRecord(7)}

MergeCalls ==
    {[op |-> "GetRange", start |-> 1, end |-> UnboundEnd, limit |-> lim,
      direction |-> d] : lim \in {MaxLimit, MaxLimit + 2}, d \in Directions}

\* GetRange up to the merge loop: the iterators are set up
MergeBegin(call, possibleSegments, setup) ==
    /\ possibleSegments # <<>>
    /\ setup.err = "nil"
    /\ read' = [pc |-> "front", call |-> call, segs |-> possibleSegments,
                iters |-> setup.iters, cursors |-> setup.cursors,
                rows |-> <<>>, lastKey |-> 0, nextIndexes |-> <<>>, j |-> 0,
                kind |-> "none", tasks |-> {}, results |-> {}, gerr |-> "nil",
                err |-> "nil"]

MergeSorted(call, possibleSegments) ==
    MergeBegin(call, possibleSegments,
               SetupIters(possibleSegments, 1,
                          IF call.direction = DirectionDescending THEN call.end
                          ELSE call.start,
                          call.direction, <<>>, <<>>, <<>>))

MergeStart(call) ==
    /\ read = IdleRead
    /\ MergeSorted(call, SortSlice([caller |-> "GetRange", direction |-> call.direction],
                                   getPossibleSegmentsForRange(blockRangeTree,
                                                               call.start, call.end)))
    /\ UNCHANGED <<segmentIDTree, blockRangeTree, last, indexMu, update, established, iterVars, writerVars>>

\* the loop ends: break, or return with an error
MergeEnds(rows, err) == read' = [read EXCEPT !.pc = "done", !.rows = rows, !.err = err]

\* the loop goes on to roll the tied cursors forward in a new errgroup
MergeRolls(kind, nextIndexes, rows, lastKey) ==
    read' = [read EXCEPT !.pc = "roll", !.kind = kind, !.nextIndexes = nextIndexes,
                         !.j = 1, !.rows = rows, !.lastKey = lastKey,
                         !.results = {}, !.gerr = "nil"]

\* one turn of the merge loop up to its errgroup, row being the front cursor
FrontRow_Taken(nextIndexes, row) ==
    IF read.lastKey # 0 /\ row.Key = read.lastKey THEN MergeEnds(read.rows, "nil")
    ELSE IF OutOfRange(row.Key, read.call.start, read.call.end, read.call.direction)
    THEN MergeEnds(read.rows, "nil")
    ELSE IF Len(read.rows) >= read.call.limit THEN MergeEnds(<<>>, "panic")
    ELSE IF Len(read.rows) + 1 >= read.call.limit
    THEN MergeEnds(Append(read.rows, row), "nil")
    ELSE MergeRolls("matching", nextIndexes, Append(read.rows, row), row.Key)

\* one turn of the merge loop up to its errgroup, nextIndexes being the front
FrontTaken(nextIndexes) ==
    IF nextIndexes = <<>> THEN MergeEnds(<<>>, "NoNextIndexFound")
    ELSE IF read.segs[nextIndexes[1]].Level = 0
            /\ read.cursors[nextIndexes[1]].Value.nil
    THEN MergeRolls("tombstone", nextIndexes, read.rows, read.lastKey)
    ELSE FrontRow_Taken(nextIndexes, read.cursors[nextIndexes[1]])

\* the merge step computes the front key
MergeFront ==
    /\ read.pc = "front"
    /\ FrontTaken(findMaxIndexes(read.cursors, read.call.direction))
    /\ UNCHANGED <<segmentIDTree, blockRangeTree, last, indexMu, update, established, iterVars, writerVars>>

\* g.Go for the next tied index, or the end of the range loop
MergeGo ==
    /\ read.pc = "roll"
    /\ read' = IF read.j > Len(read.nextIndexes)
               THEN [read EXCEPT !.pc = "front"]
               ELSE [read EXCEPT !.pc = "wait",
                                 !.tasks = read.tasks
                                     \cup {[ind |-> read.nextIndexes[read.j],
                                            kind |-> read.kind, pc |-> "next"]}]
    /\ UNCHANGED <<segmentIDTree, blockRangeTree, last, indexMu, update, established, iterVars, writerVars>>

\* the task has called Next, which returned n
TaskAdvanced(task, n) ==
    read' = [read EXCEPT !.iters[task.ind] = n.iter,
                         !.tasks = (read.tasks \ {task})
                                       \cup {[ind |-> task.ind, kind |-> task.kind,
                                              pc |-> "store", pair |-> n.pair,
                                              err |-> n.err]}]

\* a task calls segmentIters[ind].Next()
TaskNext(task) ==
    /\ task \in read.tasks
    /\ task.pc = "next"
    /\ TaskAdvanced(task, RowIter_Next(read.iters[task.ind]))
    /\ UNCHANGED <<segmentIDTree, blockRangeTree, last, indexMu, update, established, iterVars, writerVars>>

\* the task has stored into its cursor and returned stored.err to the group
TaskStored(task, stored) ==
    read' = [read EXCEPT !.cursors = stored.cursors,
                         !.tasks = read.tasks \ {task},
                         !.results = read.results
                                         \cup {[ind |-> task.ind, pair |-> task.pair,
                                                err |-> task.err]},
                         !.gerr = IF read.gerr = "nil" THEN stored.err ELSE read.gerr]

\* a task stores what Next returned in cursors[ind] and returns
TaskStore(task) ==
    /\ task \in read.tasks
    /\ task.pc = "store"
    /\ TaskStored(task,
                  IF task.kind = "tombstone"
                  THEN RollTombstoneCursor(read.iters, read.cursors, task.ind,
                                           [iter |-> read.iters[task.ind],
                                            pair |-> task.pair, err |-> task.err])
                  ELSE RollMatchingCursor(read.iters, read.cursors, task.ind,
                                          [iter |-> read.iters[task.ind],
                                           pair |-> task.pair, err |-> task.err]))
    /\ UNCHANGED <<segmentIDTree, blockRangeTree, last, indexMu, update, established, iterVars, writerVars>>

\* g.Wait returning with tasks still running
WaitReturns_Early(tasks) == TRUE

\* errgroup.Group.Wait returns when every task of the group has returned
WaitReturns(tasks) == tasks = {}

\* g.Wait() inside the range loop, and the test of its error
MergeWait ==
    /\ read.pc = "wait"
    /\ WaitReturns(read.tasks)
    /\ read' = IF read.gerr # "nil"
               THEN [read EXCEPT !.pc = "done", !.rows = <<>>, !.err = read.gerr]
               ELSE [read EXCEPT !.pc = "roll", !.j = read.j + 1]
    /\ UNCHANGED <<segmentIDTree, blockRangeTree, last, indexMu, update, established, iterVars, writerVars>>

\* GetRange returns; tasks that have not returned are left behind
MergeReturn ==
    /\ read.pc = "done"
    /\ read' = IdleRead
    /\ UNCHANGED <<segmentIDTree, blockRangeTree, last, indexMu, update, established, iterVars, writerVars>>

MergeNext ==
    \/ \E add \in SeqsUpTo(MergeRecords, MaxBatch), drop \in SeqsUpTo(MergeRecords, MaxBatch) :
          read = IdleRead /\ UpdateSegments(add, drop)
    \/ \E call \in MergeCalls : MergeStart(call)
    \/ MergeFront
    \/ MergeGo
    \/ \E task \in (IF read = IdleRead THEN {} ELSE read.tasks) : TaskNext(task)
    \/ \E task \in (IF read = IdleRead THEN {} ELSE read.tasks) : TaskStore(task)
    \/ MergeWait
    \/ MergeReturn

MergeSpec == Init /\ [][MergeNext]_vars

\* C32: when a merge step of GetRange computes the front key, every Next
\* that advances a cursor tied on the front key of the step before has
\* returned and the row it returned is in the cursor array; at no time do
\* two goroutines call Next on the same iterator or write the same cursor.
C32_TiedCursorsAdvanceBeforeNextStep ==
    read # IdleRead
        => /\ read.pc = "front"
                 => /\ read.tasks = {}
                    /\ read.kind # "none"
                          => {r.ind : r \in read.results} = Range(read.nextIndexes)
                    /\ \A r \in read.results :
                          r.err = "nil" => read.cursors[r.ind] = r.pair
           /\ \A a \in read.tasks : \A b \in read.tasks : a.ind = b.ind => a = b

\* a merge step is about to compute the front key after two or more tied
\* cursors were advanced past a row that was taken
C32_Witness ==
    /\ read # IdleRead
    /\ read.pc = "front"
    /\ read.kind = "matching"
    /\ Len(read.nextIndexes) >= 2
    /\ Cardinality(read.results) >= 2

====
